---- MODULE Spec2Model ----
(***************************************************************************)
(* Indoor-navigation backend: the in-memory navigation graph               *)
(* (GraphService), its A* route planner and the cache lifecycle driven by  *)
(* the HTTP endpoints.                                                     *)
(*                                                                         *)
(* Numbers are integers: weights, coordinates and distances are Python     *)
(* floats in the program; the model keeps to integer-valued inputs whose   *)
(* Euclidean distances are integers, so every sum and comparison below is  *)
(* exact.                                                                  *)
(***************************************************************************)
EXTENDS Integers, Sequences, FiniteSets, TLC

VARIABLES
    store_nodes,   \* rows of table "nodes", in the order select(Node) returns them
    store_edges,   \* rows of table "edges", in the order select(Edge) returns them
    graph,         \* GraphService.graph: node id -> list of <<neighbor, weight, edge_type>>
    nodes_info,    \* GraphService.nodes_info: dict kept as the list of its values, in insertion order
    edges_info,    \* GraphService.edges_info: <<from, to>> -> edge info
    loaded,        \* GraphService._loaded
    call,          \* the arguments of the astar call in progress: <<start_id, end_id>>, or <<>>
    search,        \* the local state of that astar call
    tasks,         \* the requests being served: per task its handler and where it is suspended
    calls,         \* history: the GraphService methods the last step called, each with
                   \* the value _loaded had at the call
    response,      \* history: the HTTP response the last step sent, <<>> if none
    rebuilds,      \* history: load_graph_from_db runs begun since the last clear_cache()
                   \* (or since startup) that have not failed
    written,       \* history: ids of the nodes whose coordinate write has committed and
                   \* whose endpoint has returned
    session_messages,  \* chat.py _SESSION_MESSAGES: session id -> list of messages
    appends        \* history: the _append_history calls made so far

cacheVars == <<graph, nodes_info, edges_info, loaded>>
storeVars == <<store_nodes, store_edges>>
searchVars == <<call, search>>
requestVars == <<tasks, calls, response, rebuilds, written>>
chatVars == <<session_messages, appends>>
vars == <<store_nodes, store_edges, graph, nodes_info, edges_info, loaded, call, search,
          tasks, calls, response, rebuilds, written, session_messages, appends>>

\* No chat session has been opened (chat.py line 27)
NoChat == session_messages = <<>> /\ appends = <<>>

-----------------------------------------------------------------------------
(* Bounds of the model *)

MaxFloor == 2      \* floors are 1..MaxFloor
MaxWeight == 3     \* the heaviest edge drawn
MaxEdges == 3      \* edge rows in a drawn store

-----------------------------------------------------------------------------
(* Python values *)

\* Optional[T]: None is <<>>, a value v is <<v>>
None == <<>>
Some(v) == <<v>>

\* bool(v) of an Optional number: None and 0 are falsy
Truthy(o) == o # None /\ o[1] # 0

Abs(n) == IF n < 0 THEN -n ELSE n

\* math.sqrt on the perfect squares the drawn coordinates produce
Sqrt(n) == CHOOSE r \in 0..n : r * r = n

\* float: a finite number or float('inf')
Finite(d) == [inf |-> FALSE, val |-> d]
Infinity == [inf |-> TRUE, val |-> 0]

\* str < str on the node ids of the model (Python compares code points)
IdRank(id) ==
    CASE id = "A" -> 1 [] id = "B" -> 2 [] id = "C" -> 3 [] id = "D" -> 4
      [] id = "E" -> 5 [] OTHER -> 6

\* tuple < tuple on the heap entries <<f_score, g_score, node_id>>
TupleLess(t, u) ==
    \/ t[1] < u[1]
    \/ t[1] = u[1] /\ t[2] < u[2]
    \/ t[1] = u[1] /\ t[2] = u[2] /\ IdRank(t[3]) < IdRank(u[3])

-----------------------------------------------------------------------------
(* The in-memory graph: GraphService.__init__, clear_cache, load_graph_from_db *)

\* The three containers of a GraphService as one value
Cache == [graph |-> graph, nodes_info |-> nodes_info, edges_info |-> edges_info]

\* GraphService.__init__ / the containers after clear_cache()
EmptyCache == [graph |-> <<>>, nodes_info |-> <<>>, edges_info |-> <<>>]

\* dict index of a key in nodes_info, 0 when absent
InfoIndex(info, id) ==
    IF \E i \in 1..Len(info) : info[i].id = id
    THEN CHOOSE i \in 1..Len(info) : info[i].id = id
    ELSE 0

\* self.nodes_info[node.id] = {...}: a known key keeps its place, a new key goes last
InfoPut(info, rec) ==
    IF InfoIndex(info, rec.id) = 0
    THEN Append(info, rec)
    ELSE [info EXCEPT ![InfoIndex(info, rec.id)] = rec]

\* if key not in self.graph: self.graph[key] = []
GraphInit(g, id) == IF id \in DOMAIN g THEN g ELSE g @@ (id :> <<>>)

\* One iteration of the node loop of load_graph_from_db
LoadNode(c, node) ==
    [c EXCEPT !.nodes_info = InfoPut(@, [id |-> node.id, name |-> node.name,
                                          detail |-> node.detail, floor |-> node.floor,
                                          x |-> node.x, y |-> node.y,
                                          node_type |-> node.node_type]),
              !.graph = GraphInit(@, node.id)]

\* LoadEdge with the adjacency entry appended in one direction only
LoadEdgeBroken(c, edge) ==
    LET info == [weight |-> edge.weight, edge_type |-> edge.edge_type,
                 is_vertical |-> edge.is_vertical]
        e1 == (<<edge.from_node_id, edge.to_node_id>> :> info) @@ c.edges_info
        g1 == GraphInit(GraphInit(c.graph, edge.from_node_id), edge.to_node_id)
        g2 == [g1 EXCEPT ![edge.from_node_id] =
                   Append(@, <<edge.to_node_id, edge.weight, edge.edge_type>>)]
    IN  [c EXCEPT !.edges_info = e1, !.graph = g2]

\* LoadEdge that appends only under keys the adjacency mapping already has
LoadEdgeNoInit(c, edge) ==
    LET info == [weight |-> edge.weight, edge_type |-> edge.edge_type,
                 is_vertical |-> edge.is_vertical]
        e1 == (<<edge.from_node_id, edge.to_node_id>> :> info) @@ c.edges_info
        e2 == (<<edge.to_node_id, edge.from_node_id>> :> info) @@ e1
        g2 == IF edge.from_node_id \in DOMAIN c.graph
              THEN [c.graph EXCEPT ![edge.from_node_id] =
                       Append(@, <<edge.to_node_id, edge.weight, edge.edge_type>>)]
              ELSE c.graph
        g3 == IF edge.to_node_id \in DOMAIN g2
              THEN [g2 EXCEPT ![edge.to_node_id] =
                       Append(@, <<edge.from_node_id, edge.weight, edge.edge_type>>)]
              ELSE g2
    IN  [c EXCEPT !.edges_info = e2, !.graph = g3]

\* One iteration of the edge loop of load_graph_from_db (lines 60-81)
LoadEdge(c, edge) ==
    LET info == [weight |-> edge.weight, edge_type |-> edge.edge_type,
                 is_vertical |-> edge.is_vertical]
        e1 == (<<edge.from_node_id, edge.to_node_id>> :> info) @@ c.edges_info
        e2 == (<<edge.to_node_id, edge.from_node_id>> :> info) @@ e1
        g1 == GraphInit(GraphInit(c.graph, edge.from_node_id), edge.to_node_id)
        g2 == [g1 EXCEPT ![edge.from_node_id] =
                   Append(@, <<edge.to_node_id, edge.weight, edge.edge_type>>)]
        g3 == [g2 EXCEPT ![edge.to_node_id] =
                   Append(@, <<edge.from_node_id, edge.weight, edge.edge_type>>)]
    IN  [c EXCEPT !.edges_info = e2, !.graph = g3]

RECURSIVE LoadNodes(_, _, _)
\* for node in nodes: ...   (rows i..Len(rows))
LoadNodes(c, rows, i) ==
    IF i > Len(rows) THEN c ELSE LoadNodes(LoadNode(c, rows[i]), rows, i + 1)

RECURSIVE LoadEdges(_, _, _)
\* for edge in edges: ...   (rows i..Len(rows))
LoadEdges(c, rows, i) ==
    IF i > Len(rows) THEN c ELSE LoadEdges(LoadEdge(c, rows[i]), rows, i + 1)

\* load_graph_from_db run without interruption on cache c
LoadAll(c, nodes, edges) == LoadEdges(LoadNodes(c, nodes, 1), edges, 1)

\* self.nodes_info.get(id, {}) followed by .get(field, default)
InfoGet(c, id, field, default) ==
    IF InfoIndex(c.nodes_info, id) = 0 THEN default
    ELSE c.nodes_info[InfoIndex(c.nodes_info, id)][field]

-----------------------------------------------------------------------------
(* GraphService._heuristic *)

Heuristic(c, node1_id, node2_id) ==
    LET x1 == InfoGet(c, node1_id, "x", None)
        y1 == InfoGet(c, node1_id, "y", None)
        x2 == InfoGet(c, node2_id, "x", None)
        y2 == InfoGet(c, node2_id, "y", None)
        floor1 == InfoGet(c, node1_id, "floor", 0)
        floor2 == InfoGet(c, node2_id, "floor", 0)
    IN  IF Truthy(x1) /\ Truthy(y1) /\ Truthy(x2) /\ Truthy(y2)
        THEN LET dx == x1[1] - x2[1]
                 dy == y1[1] - y2[1]
             IN  Sqrt(dx * dx + dy * dy) + Abs(floor1 - floor2) * 30
        ELSE Abs(floor1 - floor2) * 50

-----------------------------------------------------------------------------
(* GraphService.astar *)

\* The locals of a running search
Running(open_set, closed_set, g_scores, came_from) ==
    [status |-> "running", open_set |-> open_set, closed_set |-> closed_set,
     g_scores |-> g_scores, came_from |-> came_from,
     result |-> [distance |-> Infinity, path |-> <<>>]]

\* return distance, path: the locals as they were at the return
Return(s, distance, path) ==
    [s EXCEPT !.status = "done", !.result = [distance |-> distance, path |-> path]]

\* A call that has created no local yet
NoLocals ==
    [status |-> "idle", open_set |-> {}, closed_set |-> {}, g_scores |-> <<>>,
     came_from |-> <<>>, result |-> [distance |-> Infinity, path |-> <<>>]]

\* AstarBegin without the start_id == end_id return
AstarBeginNoEarlyReturn(c, start_id, end_id) ==
    IF start_id \notin DOMAIN c.graph \/ end_id \notin DOMAIN c.graph
    THEN Return(NoLocals, Infinity, <<>>)
    ELSE Running({<<0, 0, start_id>>}, {}, (start_id :> 0), (start_id :> None))

\* AstarBegin with the start_id == end_id test before the membership test
AstarBeginSameFirst(c, start_id, end_id) ==
    IF start_id = end_id
    THEN Return(NoLocals, Finite(0), <<start_id>>)
    ELSE IF start_id \notin DOMAIN c.graph \/ end_id \notin DOMAIN c.graph
    THEN Return(NoLocals, Infinity, <<>>)
    ELSE Running({<<0, 0, start_id>>}, {}, (start_id :> 0), (start_id :> None))

\* Lines 143-160: the two early returns, else the initial locals
AstarBegin(c, start_id, end_id) ==
    IF start_id \notin DOMAIN c.graph \/ end_id \notin DOMAIN c.graph
    THEN Return(NoLocals, Infinity, <<>>)
    ELSE IF start_id = end_id
    THEN Return(NoLocals, Finite(0), <<start_id>>)
    ELSE Running({<<0, 0, start_id>>}, {}, (start_id :> 0), (start_id :> None))

\* heapq.heappop: the least entry. A node is pushed only with a g_score lower
\* than every earlier one of that node, so no two entries of the heap are equal
\* and the heap order decides the popped entry alone.
HeapMin(open_set) ==
    CHOOSE t \in open_set : \A u \in open_set : u = t \/ TupleLess(t, u)

RECURSIVE ReconstructPathUnreversed(_, _)
\* ReconstructPath without path.reverse()
ReconstructPathUnreversed(came_from, node) ==
    IF node = None THEN <<>>
    ELSE LET prev == IF node[1] \in DOMAIN came_from THEN came_from[node[1]] ELSE None
         IN  <<node[1]>> \o ReconstructPathUnreversed(came_from, prev)

\* ReconstructPath whose list starts as [current] instead of []
ReconstructPathSeeded(came_from, node) ==
    IF node = None THEN <<>>
    ELSE LET u == ReconstructPathUnreversed(came_from, node)
         IN  [i \in 1..(Len(u) + 1) |-> IF i = Len(u) + 1 THEN node[1] ELSE u[Len(u) + 1 - i]]

RECURSIVE ReconstructPath(_, _)
\* Lines 169-174: follow came_from back to None; the result is already reversed
ReconstructPath(came_from, node) ==
    IF node = None THEN <<>>
    ELSE LET prev == IF node[1] \in DOMAIN came_from THEN came_from[node[1]] ELSE None
         IN  Append(ReconstructPath(came_from, prev), node[1])

\* Relax that never lowers a g_score once set
RelaxFirstOnly(c, s, current, end_id, entry) ==
    LET neighbor == entry[1]
        tentative_g == s.g_scores[current] + entry[2]
    IN  IF neighbor \in s.closed_set THEN s
        ELSE IF neighbor \notin DOMAIN s.g_scores
        THEN [s EXCEPT
                !.g_scores = (neighbor :> tentative_g) @@ @,
                !.came_from = (neighbor :> Some(current)) @@ @,
                !.open_set = @ \cup {<<tentative_g + Heuristic(c, neighbor, end_id),
                                       tentative_g, neighbor>>}]
        ELSE s

\* Relax that overwrites came_from even when the tentative score is no better
RelaxAlwaysPred(c, s, current, end_id, entry) ==
    LET neighbor == entry[1]
        tentative_g == s.g_scores[current] + entry[2]
    IN  IF neighbor \in s.closed_set THEN s
        ELSE IF neighbor \notin DOMAIN s.g_scores \/ tentative_g < s.g_scores[neighbor]
        THEN [s EXCEPT
                !.g_scores = (neighbor :> tentative_g) @@ @,
                !.came_from = (neighbor :> Some(current)) @@ @,
                !.open_set = @ \cup {<<tentative_g + Heuristic(c, neighbor, end_id),
                                       tentative_g, neighbor>>}]
        ELSE [s EXCEPT !.came_from = (neighbor :> Some(current)) @@ @]

\* Relax without the test "if neighbor in closed_set: continue"
RelaxIgnoresClosed(c, s, current, end_id, entry) ==
    LET neighbor == entry[1]
        tentative_g == s.g_scores[current] + entry[2]
    IN  IF neighbor \notin DOMAIN s.g_scores \/ tentative_g < s.g_scores[neighbor]
        THEN [s EXCEPT
                !.g_scores = (neighbor :> tentative_g) @@ @,
                !.came_from = (neighbor :> Some(current)) @@ @,
                !.open_set = @ \cup {<<tentative_g + Heuristic(c, neighbor, end_id),
                                       tentative_g, neighbor>>}]
        ELSE s

\* Lines 185-200: the body of the neighbour loop for one adjacency entry
Relax(c, s, current, end_id, entry) ==
    LET neighbor == entry[1]
        tentative_g == s.g_scores[current] + entry[2]
    IN  IF neighbor \in s.closed_set THEN s
        ELSE IF neighbor \notin DOMAIN s.g_scores \/ tentative_g < s.g_scores[neighbor]
        THEN [s EXCEPT
                !.g_scores = (neighbor :> tentative_g) @@ @,
                !.came_from = (neighbor :> Some(current)) @@ @,
                !.open_set = @ \cup {<<tentative_g + Heuristic(c, neighbor, end_id),
                                       tentative_g, neighbor>>}]
        ELSE s

RECURSIVE RelaxAll(_, _, _, _, _, _)
\* Line 184: for neighbor, weight, edge_type in self.graph.get(current, [])
RelaxAll(c, s, current, end_id, adj, i) ==
    IF i > Len(adj) THEN s
    ELSE RelaxAll(c, Relax(c, s, current, end_id, adj[i]), current, end_id, adj, i + 1)

\* AstarIter that gives up when it pops a closed node
AstarIterStopsAtClosed(c, s, end_id) ==
    LET top == HeapMin(s.open_set)
        current == top[3]
        popped == [s EXCEPT !.open_set = @ \ {top}]
    IN  IF s.open_set = {} THEN Return(s, Infinity, <<>>)
        ELSE IF current = end_id
        THEN Return(popped, Finite(s.g_scores[end_id]),
                    ReconstructPath(s.came_from, Some(current)))
        ELSE IF current \in s.closed_set THEN Return(popped, Infinity, <<>>)
        ELSE RelaxAll(c, [popped EXCEPT !.closed_set = @ \cup {current}], current, end_id,
                      IF current \in DOMAIN c.graph THEN c.graph[current] ELSE <<>>, 1)

\* Lines 162-203: one iteration of the while loop, or the return after it
AstarIter(c, s, end_id) ==
    LET top == HeapMin(s.open_set)
        current == top[3]
        popped == [s EXCEPT !.open_set = @ \ {top}]
    IN  IF s.open_set = {} THEN Return(s, Infinity, <<>>)
        ELSE IF current = end_id
        THEN Return(popped, Finite(s.g_scores[end_id]),
                    ReconstructPath(s.came_from, Some(current)))
        ELSE IF current \in s.closed_set THEN popped
        ELSE RelaxAll(c, [popped EXCEPT !.closed_set = @ \cup {current}], current, end_id,
                      IF current \in DOMAIN c.graph THEN c.graph[current] ELSE <<>>, 1)

RECURSIVE AstarLoop(_, _, _)
AstarLoop(c, s, end_id) ==
    IF s.status = "done" THEN s ELSE AstarLoop(c, AstarIter(c, s, end_id), end_id)

\* astar(start_id, end_id) on cache c, run to its return: <<distance, path>>
Astar(c, start_id, end_id) == AstarLoop(c, AstarBegin(c, start_id, end_id), end_id).result

-----------------------------------------------------------------------------
(* Store contents the model draws *)

NodeIds == {"A", "B", "C"}
UnknownId == "Z"
Floors == 1..MaxFloor
Weights == {1, MaxWeight}
EdgeTypes == {"normal", "stairs", "lifts"}

\* Pixel coordinates: absent, or points whose pairwise distances are 3, 4 and 5
NoPos == <<None, None>>
Positions == {NoPos, <<Some(1), Some(1)>>, <<Some(4), Some(1)>>}

\* Column values that never matter to the planner, fixed per node id.
\* Texts are sequences of characters.
NodeName(id) ==
    CASE id = "A" -> <<"L", "T">> [] id = "B" -> <<"l", "a", "b">>
      [] id = "C" -> <<"S", "t">> [] OTHER -> <<"x">>
NodeDetail(id) == IF id = "A" THEN Some(<<"N", "S">>) ELSE None
NodeTypeOf(id) ==
    CASE id = "A" -> Some("classroom") [] id = "C" -> Some("stairs") [] OTHER -> Some("other")

\* A row of table nodes (models/node.py)
NodeRow(id, floor, pos) ==
    [id |-> id, name |-> NodeName(id), detail |-> NodeDetail(id), floor |-> floor,
     x |-> pos[1], y |-> pos[2], node_type |-> NodeTypeOf(id)]

\* A row of table edges (models/edge.py); is_vertical as the import scripts set it
EdgeRow(from, to, weight, edge_type) ==
    [from_node_id |-> from, to_node_id |-> to, weight |-> weight, edge_type |-> edge_type,
     is_vertical |-> (edge_type \in {"stairs", "lifts"})]

\* The edge rows a drawn store chooses among: every pair of nodes with every
\* weight (so two rows may join the same pair), a zero-weight self-loop and a
\* zero-weight edge. An edge between floors is a staircase.
EdgeCandidates(floor) ==
    LET T(a, b) == IF floor[a] = floor[b] THEN "normal" ELSE "stairs"
    IN  << EdgeRow("A", "B", MaxWeight, T("A", "B")), EdgeRow("A", "B", 1, T("A", "B")),
           EdgeRow("C", "A", 1, T("C", "A")), EdgeRow("C", "A", MaxWeight, T("C", "A")),
           EdgeRow("B", "C", 1, T("B", "C")), EdgeRow("B", "C", MaxWeight, T("B", "C")),
           EdgeRow("A", "A", 0, "normal"), EdgeRow("B", "C", 0, T("B", "C")) >>

RECURSIVE PickRows(_, _, _)
\* The rows of cands whose index is in S, in order
PickRows(cands, S, i) ==
    IF i > Len(cands) THEN <<>>
    ELSE (IF i \in S THEN <<cands[i]>> ELSE <<>>) \o PickRows(cands, S, i + 1)

-----------------------------------------------------------------------------
(* The planner on its own: SpecAstar *)

\* The store of the worked example: A(floor 1, 0, 0), B(floor 1, 100, 0),
\* C(floor 2, 0, 0), A-B of weight 100 (normal), B-C of weight 10 (stairs).
\* Neither the order of the rows nor the direction an edge row is stored in
\* is given, so they are drawn.
ScenarioNodes ==
    << NodeRow("A", 1, <<Some(0), Some(0)>>), NodeRow("B", 1, <<Some(100), Some(0)>>),
       NodeRow("C", 2, <<Some(0), Some(0)>>) >>
ScenarioEdges ==
    { <<EdgeRow(ab[1], ab[2], 100, "normal"), EdgeRow(bc[1], bc[2], 10, "stairs")>> :
        ab \in {<<"A", "B">>, <<"B", "A">>}, bc \in {<<"B", "C">>, <<"C", "B">>} }
Permutations3 == {p \in [1..3 -> 1..3] : \A i, j \in 1..3 : p[i] = p[j] => i = j}

InitStoreScenario ==
    /\ \E p \in Permutations3 : store_nodes = [i \in 1..3 |-> ScenarioNodes[p[i]]]
    /\ \E es \in ScenarioEdges : store_edges \in {es, <<es[2], es[1]>>}

\* A drawn store. Only differences of floors are ever used, so node A stays on
\* floor 1.
InitStoreDrawn ==
    \E floor \in [NodeIds -> Floors], pos \in [NodeIds -> Positions] :
        /\ floor["A"] = 1
        /\ store_nodes = << NodeRow("A", floor["A"], pos["A"]),
                            NodeRow("B", floor["B"], pos["B"]),
                            NodeRow("C", floor["C"], pos["C"]) >>
        /\ \E S \in SUBSET (1..Len(EdgeCandidates(floor))) :
             /\ Cardinality(S) <= MaxEdges
             /\ store_edges = PickRows(EdgeCandidates(floor), S, 1)

\* A freshly constructed GraphService (__init__) over one of these stores
InitAstar ==
    /\ InitStoreDrawn \/ InitStoreScenario
    /\ graph = EmptyCache.graph
    /\ nodes_info = EmptyCache.nodes_info
    /\ edges_info = EmptyCache.edges_info
    /\ loaded = FALSE
    /\ call = <<>>
    /\ search = NoLocals
    /\ tasks = <<>>
    /\ calls = {}
    /\ response = <<>>
    /\ rebuilds = 0
    /\ written = {}
    /\ NoChat

\* The ids a caller may pass: the ids of the store, and one id it does not hold
CallIds == {store_nodes[i].id : i \in 1..Len(store_nodes)} \cup {UnknownId}

\* load_graph_from_db, run while nothing else runs
LoadGraph ==
    /\ call = <<>>
    /\ ~loaded
    /\ LET c == LoadAll(Cache, store_nodes, store_edges)
       IN  /\ graph' = c.graph
           /\ nodes_info' = c.nodes_info
           /\ edges_info' = c.edges_info
    /\ loaded' = TRUE
    /\ UNCHANGED <<chatVars, storeVars, searchVars, requestVars>>

\* clear_cache
ClearCache ==
    /\ call = <<>>
    /\ loaded
    /\ graph' = EmptyCache.graph
    /\ nodes_info' = EmptyCache.nodes_info
    /\ edges_info' = EmptyCache.edges_info
    /\ loaded' = FALSE
    /\ UNCHANGED <<chatVars, storeVars, searchVars, requestVars>>

\* astar(a, b) is called and runs up to its while loop
AstarCall(a, b) ==
    /\ call = <<>>
    /\ call' = <<a, b>>
    /\ search' = AstarBegin(Cache, a, b)
    /\ UNCHANGED <<chatVars, storeVars, cacheVars, requestVars>>

\* ... with an id that is no key of the graph: line 144
AstarCallUnknown ==
    \E a, b \in CallIds :
        /\ a \notin DOMAIN graph \/ b \notin DOMAIN graph
        /\ AstarCall(a, b)

\* ... with start_id == end_id: line 147
AstarCallSame ==
    \E a \in CallIds :
        /\ a \in DOMAIN graph
        /\ AstarCall(a, a)

\* ... with two different keys of the graph: lines 151-160
AstarCallSearch ==
    \E a, b \in CallIds :
        /\ a \in DOMAIN graph /\ b \in DOMAIN graph /\ a # b
        /\ AstarCall(a, b)

\* One iteration of the while loop (or the return after it)
AstarStep ==
    /\ call # <<>>
    /\ search.status = "running"
    /\ search' = AstarIter(Cache, search, call[2])
    /\ UNCHANGED <<chatVars, storeVars, cacheVars, call, requestVars>>

\* the loop ends with an empty heap: line 203
StepExhausted == search.open_set = {} /\ AstarStep

\* the popped node is end_id: lines 167-175
StepFound ==
    /\ search.open_set # {}
    /\ HeapMin(search.open_set)[3] = call[2]
    /\ AstarStep

\* the popped node is closed already: lines 178-179
StepSkipClosed ==
    /\ search.open_set # {}
    /\ HeapMin(search.open_set)[3] # call[2]
    /\ HeapMin(search.open_set)[3] \in search.closed_set
    /\ AstarStep

\* the popped node is expanded: lines 181-200
StepExpand ==
    /\ search.open_set # {}
    /\ HeapMin(search.open_set)[3] # call[2]
    /\ HeapMin(search.open_set)[3] \notin search.closed_set
    /\ AstarStep

\* The caller has the result; the locals are gone
AstarReturn ==
    /\ call # <<>>
    /\ search.status = "done"
    /\ call' = <<>>
    /\ search' = NoLocals
    /\ UNCHANGED <<chatVars, storeVars, cacheVars, requestVars>>

NextAstar ==
    \/ LoadGraph
    \/ ClearCache
    \/ AstarCallUnknown
    \/ AstarCallSame
    \/ AstarCallSearch
    \/ StepExhausted
    \/ StepFound
    \/ StepSkipClosed
    \/ StepExpand
    \/ AstarReturn

SpecAstar == InitAstar /\ [][NextAstar]_vars

\* A drawn store none of whose nodes has coordinates
InitStoreUnplaced ==
    \E floor \in [NodeIds -> Floors] :
        /\ floor["A"] = 1
        /\ store_nodes = << NodeRow("A", floor["A"], NoPos), NodeRow("B", floor["B"], NoPos),
                            NodeRow("C", floor["C"], NoPos) >>
        /\ \E S \in SUBSET (1..Len(EdgeCandidates(floor))) :
             /\ Cardinality(S) <= MaxEdges
             /\ store_edges = PickRows(EdgeCandidates(floor), S, 1)

\* A store of four nodes on one floor on which a search from A to E closes B
\* with the g_score of the edge A-B before it expands C, from where B is
\* cheaper: B lies where E lies, C lies 3 away from E.
InitStoreDetour ==
    /\ store_nodes = << NodeRow("A", 1, <<Some(1), Some(1)>>),
                        NodeRow("B", 1, <<Some(4), Some(1)>>),
                        NodeRow("C", 1, <<Some(1), Some(1)>>),
                        NodeRow("E", 1, <<Some(4), Some(1)>>) >>
    /\ store_edges = << EdgeRow("A", "B", MaxWeight, "normal"), EdgeRow("A", "C", 1, "normal"),
                        EdgeRow("C", "B", 1, "normal"), EdgeRow("B", "E", MaxWeight, "normal") >>

\* A freshly constructed GraphService (__init__) over one of these stores
InitAstarLive ==
    /\ InitStoreUnplaced \/ InitStoreScenario \/ InitStoreDetour
    /\ graph = EmptyCache.graph
    /\ nodes_info = EmptyCache.nodes_info
    /\ edges_info = EmptyCache.edges_info
    /\ loaded = FALSE
    /\ call = <<>>
    /\ search = NoLocals
    /\ tasks = <<>>
    /\ calls = {}
    /\ response = <<>>
    /\ rebuilds = 0
    /\ written = {}
    /\ NoChat

\* astar is a plain method without an await: once called, its loop runs on
\* until it returns
SpecAstarLive == InitAstarLive /\ [][NextAstar]_vars /\ WF_vars(AstarStep)

-----------------------------------------------------------------------------
(* Notions the properties of the planner are stated with *)

\* The weights of the adjacency entries leading from a to b
EntryWeights(c, a, b) ==
    IF a \in DOMAIN c.graph
    THEN {c.graph[a][i][2] : i \in {j \in 1..Len(c.graph[a]) : c.graph[a][j][1] = b}}
    ELSE {}

\* a and b are joined by an adjacency entry, in either direction
Joined(c, a, b) == EntryWeights(c, a, b) # {} \/ EntryWeights(c, b, a) # {}

RECURSIVE ComponentOf(_, _)
\* The connected component of the keys S: all keys joined to them by entries
ComponentOf(c, S) ==
    LET T == S \cup {n \in DOMAIN c.graph : \E m \in S : Joined(c, m, n)}
    IN  IF T = S THEN S ELSE ComponentOf(c, T)

SameComponent(c, a, b) ==
    a \in DOMAIN c.graph /\ b \in DOMAIN c.graph /\ b \in ComponentOf(c, {a})

RECURSIVE Walks(_, _, _)
\* The weights of the walks from a of at most k entries, per node reached
Walks(c, a, k) ==
    IF k = 0 THEN {<<a, 0>>}
    ELSE LET W == Walks(c, a, k - 1)
         IN  W \cup UNION {{<<n, w[2] + d>> : d \in EntryWeights(c, w[1], n)} :
                               w \in W, n \in DOMAIN c.graph}

\* The least summed weight over all paths from a to b (b in a's component):
\* with weights >= 0 a shortest path has fewer entries than there are keys
MinDistance(c, a, b) ==
    LET D == {w[2] : w \in {v \in Walks(c, a, Cardinality(DOMAIN c.graph) - 1) : v[1] = b}}
    IN  CHOOSE d \in D : \A e \in D : d <= e

RECURSIVE PathSums(_, _, _)
\* The sums of weights of the adjacency entries a traveller may take along
\* path[i..]; empty when two consecutive entries are not joined
PathSums(c, path, i) ==
    IF i >= Len(path) THEN {0}
    ELSE {w + r : w \in EntryWeights(c, path[i], path[i + 1]), r \in PathSums(c, path, i + 1)}

\* h(u) <= w + h(v) for every adjacency entry u -> v of weight w, and h(end) = 0
HeuristicConsistent(c, end_id) ==
    /\ Heuristic(c, end_id, end_id) = 0
    /\ \A u \in DOMAIN c.graph : \A i \in 1..Len(c.graph[u]) :
           Heuristic(c, u, end_id) <= c.graph[u][i][2] + Heuristic(c, c.graph[u][i][1], end_id)

\* An astar call has returned
Returned == call # <<>> /\ search.status = "done"
StartId == call[1]
EndId == call[2]

-----------------------------------------------------------------------------
(* Properties of the planner *)

C2_PathConsistent ==
    (Returned /\ search.result.path # <<>>) =>
        LET path == search.result.path
        IN  /\ path[1] = StartId
            /\ path[Len(path)] = EndId
            /\ \A i \in 1..(Len(path) - 1) : EntryWeights(Cache, path[i], path[i + 1]) # {}
            /\ ~search.result.distance.inf
            /\ search.result.distance.val \in PathSums(Cache, path, 1)

\* A three-node path was returned over a pair of nodes joined by two edges of
\* different weights
C2_Witness ==
    /\ Returned
    /\ Len(search.result.path) = 3
    /\ \E i \in 1..2 :
          Cardinality(EntryWeights(Cache, search.result.path[i], search.result.path[i + 1])) = 2

\* C3: for keys a, b of the graph, astar(a, b) returns a finite distance and a
\* non-empty path when a and b are in the same connected component, and
\* (inf, []) with an empty frontier when they are not.
C3_FiniteIffConnected ==
    (Returned /\ StartId \in DOMAIN graph /\ EndId \in DOMAIN graph) =>
        IF SameComponent(Cache, StartId, EndId)
        THEN ~search.result.distance.inf /\ search.result.path # <<>>
        ELSE /\ search.result = [distance |-> Infinity, path |-> <<>>]
             /\ search.open_set = {}

\* Both cases happen: a route of two hops, and an exhausted search that
\* expanded two nodes
C3_Witness ==
    /\ Returned
    /\ StartId \in DOMAIN graph /\ EndId \in DOMAIN graph
    /\ ~SameComponent(Cache, StartId, EndId)
    /\ Cardinality(search.closed_set) = 2

\* C4: astar(a, a) for a key a returns (0, [a]) at once: no local of the
\* search exists, no node was expanded.
C4_SameNode ==
    (call # <<>> /\ StartId = EndId /\ StartId \in DOMAIN graph) =>
        search = Return(NoLocals, Finite(0), <<StartId>>)

\* astar(a, a) returned on a node that has neighbours
C4_Witness ==
    /\ Returned
    /\ StartId = EndId
    /\ StartId \in DOMAIN graph
    /\ graph[StartId] # <<>>

\* C5: astar with an id that is no key of the graph returns (inf, []) at once,
\* also for twice the same unknown id and on the empty graph left by
\* clear_cache.
C5_UnknownId ==
    (call # <<>> /\ (StartId \notin DOMAIN graph \/ EndId \notin DOMAIN graph)) =>
        search = Return(NoLocals, Infinity, <<>>)

\* astar(Z, Z), Z unknown, returned on a graph emptied by clear_cache
C5_Witness ==
    /\ Returned
    /\ StartId = UnknownId /\ EndId = UnknownId
    /\ DOMAIN graph = {}
    /\ ~loaded

\* C22: every non-empty path returned by astar holds no node id twice, also on
\* graphs with cycles, self-loops, parallel edges and zero-weight edges.
C22_PathSimple ==
    (Returned /\ search.result.path # <<>>) =>
        \A i, j \in 1..Len(search.result.path) :
            search.result.path[i] = search.result.path[j] => i = j

\* A three-node path was returned whose middle node has a zero-weight edge,
\* on a graph that also holds a self-loop
C22_Witness ==
    /\ Returned
    /\ Len(search.result.path) = 3
    /\ 0 \in EntryWeights(Cache, search.result.path[2], search.result.path[3])
    /\ \E n \in DOMAIN graph : EntryWeights(Cache, n, n) # {}

\* One iteration of a running search keeps what is closed: the closed set only
\* grows, by at most the popped node, which was not closed before; the
\* g_score and the predecessor of a closed node stay; popping a closed node
\* changes nothing but the heap, which loses that entry.
ClosedIsFinal ==
    (call # <<>> /\ search.status = "running" /\ search'.status # "idle") =>
        /\ search.closed_set \subseteq search'.closed_set
        /\ \A n \in search'.closed_set \ search.closed_set :
              /\ search.open_set # {}
              /\ n = HeapMin(search.open_set)[3]
        /\ \A n \in search.closed_set :
              /\ search'.g_scores[n] = search.g_scores[n]
              /\ search'.came_from[n] = search.came_from[n]
        /\ (search.open_set # {} /\ HeapMin(search.open_set)[3] \in search.closed_set) =>
              /\ search'.closed_set = search.closed_set
              /\ search'.g_scores = search.g_scores
              /\ search'.came_from = search.came_from
              /\ search'.open_set = search.open_set \ {HeapMin(search.open_set)}

\* C23: every astar call returns; while it runs each node is expanded at most
\* once, and the g_score and the predecessor of a node never change once the
\* node is closed.
C23_TerminatesClosedFinal ==
    /\ [][ClosedIsFinal]_vars
    /\ [](search.status = "running" => <>(search.status = "done"))

\* A search returned that had closed a node and later expanded a neighbour
\* from which that node is cheaper than its g_score
C23_Witness ==
    /\ Returned
    /\ \E n \in search.closed_set :
          \E m \in search.closed_set \ {n} :
              \E w \in EntryWeights(Cache, m, n) : search.g_scores[m] + w < search.g_scores[n]

\* The loaded graph is the one of the worked example
ScenarioLoaded ==
    /\ loaded
    /\ {store_nodes[i] : i \in 1..Len(store_nodes)} = {ScenarioNodes[i] : i \in 1..3}
    /\ {nodes_info[i] : i \in 1..Len(nodes_info)} = {ScenarioNodes[i] : i \in 1..3}
    /\ DOMAIN graph = {"A", "B", "C"}
    /\ graph["A"] = << <<"B", 100, "normal">> >>
    /\ graph["C"] = << <<"B", 10, "stairs">> >>
    /\ {graph["B"][i] : i \in 1..Len(graph["B"])} = {<<"A", 100, "normal">>, <<"C", 10, "stairs">>}
    /\ Len(graph["B"]) = 2

\* C6: on the graph A(floor 1, 0, 0), B(floor 1, 100, 0), C(floor 2, 0, 0) with
\* A-B of weight 100 and B-C of weight 10 (stairs), astar(A, C) returns
\* distance 110 and path [A, B, C].
C6_Scenario ==
    /\ ((\E i \in 1..Len(store_nodes) : store_nodes[i].x = Some(100)) /\ loaded)
          => ScenarioLoaded
    /\ (ScenarioLoaded /\ Returned /\ call = <<"A", "C">>)
          => search.result = [distance |-> Finite(110), path |-> <<"A", "B", "C">>]

\* astar(A, C) returned on that graph
C6_Witness ==
    /\ ScenarioLoaded
    /\ Returned
    /\ call = <<"A", "C">>
    /\ search.closed_set = {"A", "B"}

-----------------------------------------------------------------------------
(* Texts: str.lower() and the substring test "in" *)

LowerChar(ch) ==
    CASE ch = "A" -> "a" [] ch = "B" -> "b" [] ch = "C" -> "c" [] ch = "L" -> "l"
      [] ch = "N" -> "n" [] ch = "S" -> "s" [] ch = "T" -> "t" [] ch = "Z" -> "z"
      [] OTHER -> ch
\* Lower that leaves the text as it is
LowerKeepsCase(text) == text

\* text.lower()
Lower(text) == [i \in 1..Len(text) |-> LowerChar(text[i])]

\* needle in hay
Contains(hay, needle) ==
    \E k \in 0..(Len(hay) - Len(needle)) : SubSeq(hay, k + 1, k + Len(needle)) = needle

\* The characters of a node id (the ids of the model are one character long)
IdText(id) == <<id>>

-----------------------------------------------------------------------------
(* The read methods of GraphService the endpoints call *)

\* get_node_info
GetNodeInfo(c, node_id) ==
    IF InfoIndex(c.nodes_info, node_id) = 0 THEN None
    ELSE Some(c.nodes_info[InfoIndex(c.nodes_info, node_id)])

\* search_nodes: the matching values of nodes_info, in its order
SearchNodes(c, keyword) ==
    LET keyword_lower == Lower(keyword)
        Matches(info) ==
            \/ Contains(Lower(IdText(info.id)), keyword_lower)
            \/ Contains(Lower(info.name), keyword_lower)
            \/ Contains(Lower(IF info.detail = None THEN <<>> ELSE info.detail[1]), keyword_lower)
    IN  SelectSeq(c.nodes_info, Matches)

\* get_all_nodes
GetAllNodes(c) == c.nodes_info

\* get_nodes_by_floor
GetNodesByFloor(c, floor) ==
    LET OnFloor(info) == info.floor = floor
    IN  SelectSeq(c.nodes_info, OnFloor)

-----------------------------------------------------------------------------
(* The path presenter: get_path_nodes, generate_navigation_steps and         *)
(* get_floors_in_path                                                        *)

DigitChars == <<"0", "1", "2", "3", "4", "5", "6", "7", "8", "9">>

RECURSIVE Digits(_)
\* The decimal digits of a natural number
Digits(n) == IF n < 10 THEN <<DigitChars[n + 1]>>
             ELSE Append(Digits(n \div 10), DigitChars[(n % 10) + 1])

\* str() of an int inside an f-string
Str(n) == IF n < 0 THEN <<"-">> \o Digits(0 - n) ELSE Digits(n)

\* f"{weight:.0f}" of a weight that is a whole number
Format0f(weight) == Str(weight)

\* get_path_nodes: a PathNode per id, with defaults for an id without info
GetPathNodes(c, path) ==
    [i \in 1..Len(path) |->
        LET info == GetNodeInfo(c, path[i])
        IN  IF info = None
            THEN [id |-> path[i], name |-> IdText(path[i]), detail |-> None, floor |-> 0,
                  x |-> None, y |-> None, node_type |-> None]
            ELSE [id |-> path[i], name |-> info[1].name, detail |-> info[1].detail,
                  floor |-> info[1].floor, x |-> info[1].x, y |-> info[1].y,
                  node_type |-> info[1].node_type]]

\* The words of an instruction without the branch "floor_change < 0"
\* of a staircase: going down reads as going up
InstructionUpOnly(kind, count, unit, level, weight, name, detail) ==
    [kind |-> IF kind = "go_down_stairs" THEN "go_up_stairs" ELSE kind, count |-> count,
     unit |-> unit, level |-> level, weight |-> weight, name |-> name, detail |-> detail]

\* The words of an instruction: which sentence it is and what is filled in
Instruction(kind, count, unit, level, weight, name, detail) ==
    [kind |-> kind, count |-> count, unit |-> unit, level |-> level, weight |-> weight,
     name |-> name, detail |-> detail]

\* Lines 254-299: the step from path[i] to path[i + 1], i counted from 1
NavigationStep(c, path, i) ==
    LET from_id == path[i]
        to_id == path[i + 1]
        from_node == GetNodeInfo(c, from_id)
        to_node == GetNodeInfo(c, to_id)
        has_edge == <<from_id, to_id>> \in DOMAIN c.edges_info
        edge_type == IF has_edge THEN c.edges_info[<<from_id, to_id>>].edge_type ELSE "normal"
        weight == IF has_edge THEN c.edges_info[<<from_id, to_id>>].weight ELSE 0
        from_floor == IF from_node = None THEN 0 ELSE from_node[1].floor
        to_floor == IF to_node = None THEN 0 ELSE to_node[1].floor
        floor_change == IF from_floor # to_floor THEN Some(to_floor - from_floor) ELSE None
        to_name == IF to_node = None THEN IdText(to_id) ELSE to_node[1].name
        to_detail == IF to_node = None \/ to_node[1].detail = None THEN <<>>
                     ELSE to_node[1].detail[1]
        Unit(n) == IF n = 1 THEN "floor" ELSE "floors"
        instruction ==
            IF edge_type = "stairs"
            THEN IF floor_change # None /\ floor_change[1] > 0
                 THEN Instruction("go_up_stairs", Str(floor_change[1]), Unit(floor_change[1]),
                                  Str(to_floor), <<>>, <<>>, <<>>)
                 ELSE IF floor_change # None /\ floor_change[1] < 0
                 THEN Instruction("go_down_stairs", Str(Abs(floor_change[1])),
                                  Unit(Abs(floor_change[1])), Str(to_floor), <<>>, <<>>, <<>>)
                 ELSE Instruction("pass_stairs", <<>>, "", <<>>, <<>>, to_name, <<>>)
            ELSE IF edge_type = "lifts"
            THEN IF floor_change # None
                 THEN Instruction("take_lift", <<>>, "", Str(to_floor), <<>>, <<>>, <<>>)
                 ELSE Instruction("pass_lift", <<>>, "", <<>>, <<>>, to_name, <<>>)
            ELSE Instruction("walk", <<>>, "", <<>>, Format0f(weight), to_name, to_detail)
    IN  [step_number |-> i, instruction |-> instruction, from_node_id |-> from_id,
         to_node_id |-> to_id, distance |-> weight, edge_type |-> edge_type,
         floor_change |-> floor_change]

\* generate_navigation_steps with a step for every node of the path
GenerateNavigationStepsPerNode(c, path) ==
    [i \in 1..Len(path) |-> NavigationStep(c, Append(path, path[Len(path)]), i)]

\* generate_navigation_steps (lines 247-301)
GenerateNavigationSteps(c, path) ==
    IF Len(path) < 2 THEN <<>>
    ELSE [i \in 1..(Len(path) - 1) |-> NavigationStep(c, path, i)]

RECURSIVE Sorted(_)
\* sorted() of a set of ints
Sorted(S) ==
    IF S = {} THEN <<>>
    ELSE LET m == CHOOSE x \in S : \A y \in S : x <= y
         IN  <<m>> \o Sorted(S \ {m})

\* get_floors_in_path that collects the floors in a list and returns it as it is
GetFloorsPerNode(c, path) ==
    LET HasInfo(id) == GetNodeInfo(c, id) # None
        known == SelectSeq(path, HasInfo)
    IN  [k \in 1..Len(known) |-> GetNodeInfo(c, known[k])[1].floor]

\* get_floors_in_path (lines 313-319): the floors of the ids that have info
GetFloorsInPath(c, path) ==
    Sorted({GetNodeInfo(c, path[i])[1].floor :
               i \in {j \in 1..Len(path) : GetNodeInfo(c, path[j]) # None}})

-----------------------------------------------------------------------------
(* The endpoints. A request is a task of the one event loop: a step runs a   *)
(* handler from one await to the next, and nothing else runs in between.     *)

MaxTasks == 2      \* requests in flight at once
TopK == 3          \* top_k of recognize_location

TaskIds == 1..MaxTasks

\* The coordinates a position update writes
NewPos == <<Some(4), Some(1)>>

\* An id that edge rows refer to although no node row has it (the store does
\* not enforce the foreign keys of table edges)
DanglingId == "D"

\* The store of the deployment: A and B joined by a corridor that a second
\* row records the other way round with another length, C alone upstairs, and
\* an edge from B to a node that has no row
DeployedNodes ==
    << NodeRow("A", 1, <<Some(1), Some(1)>>), NodeRow("B", 1, NoPos), NodeRow("C", 2, NoPos) >>
DeployedEdges ==
    << EdgeRow("A", "B", 1, "normal"), EdgeRow("B", "A", MaxWeight, "normal"),
       EdgeRow("B", DanglingId, 1, "normal") >>

\* The bodies of POST /navigation/route (schemas/navigation.py RouteRequest)
RouteRequests ==
    [start_node_id : {"A", UnknownId},
     target_node_id : {None, Some("B"), Some("C"), Some(UnknownId)},
     target_name : {None, Some(<<"L", "A", "B">>), Some(<<"L">>), Some(<<"q">>)}]

Keywords == {<<"l">>, <<"q">>}
FloorFilters == {None, Some(1)}

\* The node ids PUT /maps/nodes/{node_id}/position is called with
WriteTargets == {"A", UnknownId}

\* The bodies of PUT /maps/nodes/batch-update: lists of {id, x, y}
BatchInputs ==
    { <<>>,
      << [id |-> Some("A"), x |-> NewPos[1], y |-> NewPos[2]] >>,
      << [id |-> Some(UnknownId), x |-> NewPos[1], y |-> NewPos[2]],
         [id |-> Some("A"), x |-> None, y |-> NewPos[2]] >> }

\* A task that serves no request
IdleTask ==
    [kind |-> "idle", pc |-> "idle", snap |-> <<>>, writes |-> <<>>, node_count |-> 0,
     seen |-> {}, counted |-> FALSE]

\* A method of GraphService called by code `by` while _loaded was `fresh`
CallsOf(ops, by, fresh) == {[op |-> o, by |-> by, fresh |-> fresh] : o \in ops}

\* The methods that read the graph, the node index or the edge index
ReadOps ==
    {"get_node_info", "search_nodes", "astar", "get_path_nodes", "generate_navigation_steps",
     "get_floors_in_path", "get_all_nodes", "get_nodes_by_floor"}

\* TruthyId that takes no id as given
TruthyIdNever(o) == FALSE

\* bool() of an Optional[str] that holds an id, and of one that holds a text
TruthyId(o) == o # None /\ o[1] # ""
TruthyText(o) == o # None /\ o[1] # <<>>

\* matches[-1]: the last match
LastMatch(matches) == matches[Len(matches)]

\* matches[0]: the first match (line 50)
FirstMatch(matches) == matches[1]

\* The HTTPException of line 53 raised as 404
NoTargetAsNotFound == [status |-> 404, detail |-> "target_not_found"]

\* HTTPException(status_code=400, detail="请提供 target_name 或 target_node_id")
NoTargetOutcome == [status |-> 400, detail |-> "no_target"]

\* The HTTPException of line 64 raised with the words of line 58
NoRouteAsTargetNotFound == [status |-> 404, detail |-> "target_not_found"]

\* HTTPException(status_code=404, detail="无法找到路径，请检查节点是否连通")
NoRouteOutcome == [status |-> 404, detail |-> "no_route"]

\* calculate_route after its ensure-fresh block (lines 36-79): the methods it
\* calls, the target it settled on, and the response. The details stand for
\* the four messages of lines 39, 48, 58 and 64 and the one of line 53.
RouteTail(c, req) ==
    LET use_name == ~TruthyId(req.target_node_id) /\ TruthyText(req.target_name)
        matches == SearchNodes(c, req.target_name[1])
        target == IF use_name /\ matches # <<>> THEN Some(FirstMatch(matches).id)
                  ELSE req.target_node_id
        looked == {"get_node_info"} \cup (IF use_name THEN {"search_nodes"} ELSE {})
        r == Astar(c, req.start_node_id, target[1])
        Fail(ops, outcome, tgt) ==
            [ops |-> ops, status |-> outcome.status, detail |-> outcome.detail,
             target |-> tgt, path |-> <<>>, path_nodes |-> <<>>, total_distance |-> Infinity,
             steps |-> <<>>, floors_involved |-> <<>>]
    IN  IF GetNodeInfo(c, req.start_node_id) = None
        THEN Fail({"get_node_info"}, [status |-> 404, detail |-> "start_not_found"], None)
        ELSE IF use_name /\ matches = <<>>
        THEN Fail(looked, [status |-> 404, detail |-> "target_name_not_found"], None)
        ELSE IF ~TruthyId(target)
        THEN Fail(looked, NoTargetOutcome, target)
        ELSE IF GetNodeInfo(c, target[1]) = None
        THEN Fail(looked, [status |-> 404, detail |-> "target_not_found"], target)
        ELSE IF r.path = <<>>
        THEN Fail(looked \cup {"astar"}, NoRouteOutcome, target)
        ELSE [ops |-> looked \cup {"astar", "get_path_nodes", "generate_navigation_steps",
                                   "get_floors_in_path"},
              status |-> 200, detail |-> "ok", target |-> target,
              path |-> r.path, path_nodes |-> GetPathNodes(c, r.path),
              total_distance |-> r.distance,
              steps |-> GenerateNavigationSteps(c, r.path),
              floors_involved |-> GetFloorsInPath(c, r.path)]

\* Cleared that keeps nodes_info
ClearedKeepsNodes(c) == [EmptyCache EXCEPT !.nodes_info = c.nodes_info]

\* clear_cache(): the containers it leaves
Cleared(c) == EmptyCache

\* FlagAfterNodeLoop that already sets _loaded
FlagSetAfterNodeLoop(flag) == TRUE

\* _loaded after the node loop of load_graph_from_db: not assigned there
FlagAfterNodeLoop(flag) == flag

\* _loaded after the edge loop: line 83
FlagAfterEdgeLoop(flag) == TRUE

\* recognize_location after await file.read() (lines 56-111): an unreadable or
\* oversized image ends with 400, else the recognizer looks the nodes up
\* (ai_service.py line 143 or 229) and at most top_k candidates are returned
RecognizeTail(c, fresh, node_count, image_ok) ==
    IF image_ok
    THEN [calls |-> CallsOf({"get_all_nodes"}, "ai_service", fresh),
          response |-> << [kind |-> "recognize", status |-> 200, node_count |-> node_count,
                           candidates |-> IF Len(GetAllNodes(c)) < TopK
                                          THEN Len(GetAllNodes(c)) ELSE TopK] >>]
    ELSE [calls |-> {},
          response |-> << [kind |-> "recognize", status |-> 400, detail |-> "bad_image"] >>]

\* The handler of `kind` from the return of its ensure-fresh block to its next
\* await or its response; `pre` are the calls the step made before, c the
\* cache and fresh the flag at that point. The request body is first used
\* here, so it is drawn here.
Serve(t, kind, c, fresh, seen, pre) ==
    \/ /\ kind = "route"
       /\ \E req \in RouteRequests :
            \E o \in {RouteTail(c, req)} :
                /\ calls' = pre \cup CallsOf(o.ops, "endpoint", fresh)
                /\ response' = << [kind |-> kind, status |-> o.status, detail |-> o.detail,
                                   request |-> req, target |-> o.target, path |-> o.path,
                                   path_nodes |-> o.path_nodes,
                                   total_distance |-> o.total_distance, steps |-> o.steps,
                                   floors_involved |-> o.floors_involved, seen |-> seen] >>
       /\ tasks' = [tasks EXCEPT ![t] = IdleTask]
    \/ /\ kind = "search"
       /\ \E keyword \in Keywords :
            /\ calls' = pre \cup CallsOf({"search_nodes"}, "endpoint", fresh)
            /\ response' = << [kind |-> kind, status |-> 200, request |-> keyword,
                               nodes |-> SearchNodes(c, keyword), seen |-> seen] >>
       /\ tasks' = [tasks EXCEPT ![t] = IdleTask]
    \/ /\ kind = "nodes"
       /\ \E floor \in FloorFilters :
            /\ calls' = pre \cup CallsOf({IF floor = None THEN "get_all_nodes"
                                          ELSE "get_nodes_by_floor"}, "endpoint", fresh)
            /\ response' = << [kind |-> kind, status |-> 200, request |-> floor,
                               nodes |-> IF floor = None THEN GetAllNodes(c)
                                         ELSE GetNodesByFloor(c, floor[1]),
                               seen |-> seen] >>
       /\ tasks' = [tasks EXCEPT ![t] = IdleTask]
    \/ /\ kind = "recognize"
       \* line 51, then await file.read(): an upload held in memory is read
       \* without suspending, one spooled to disk suspends the handler
       /\ \E suspends \in BOOLEAN :
            IF suspends
            THEN /\ calls' = pre \cup CallsOf({"get_all_nodes"}, "endpoint", fresh)
                 /\ response' = <<>>
                 /\ tasks' = [tasks EXCEPT ![t] =
                        [IdleTask EXCEPT !.kind = kind, !.pc = "file_wait",
                                         !.node_count = Len(GetAllNodes(c))]]
            ELSE /\ \E image_ok \in BOOLEAN :
                      LET o == RecognizeTail(c, fresh, Len(GetAllNodes(c)), image_ok)
                      IN  /\ calls' = pre \cup CallsOf({"get_all_nodes"}, "endpoint", fresh)
                                           \cup o.calls
                          /\ response' = o.response
                 /\ tasks' = [tasks EXCEPT ![t] = IdleTask]
    \/ /\ kind = "reload"
       /\ calls' = pre
       /\ response' = << [kind |-> kind, status |-> 200, nodes_count |-> Len(c.nodes_info),
                          edges_count |-> Cardinality(DOMAIN c.edges_info) \div 2] >>
       /\ tasks' = [tasks EXCEPT ![t] = IdleTask]

\* ReloadRequired that asks for a load whatever the flag
ReloadRequiredAlways(flag) == TRUE

\* reload_required(): not self._loaded
ReloadRequired(flag) == ~flag

\* A route, search, node-list or recognition request arrives: the handler runs
\* its ensure-fresh block and, if the graph is loaded, on to its next await or
\* its response; else it awaits the node read of load_graph_from_db
StartRead(t, kind) ==
    /\ tasks[t].pc = "idle"
    /\ IF ReloadRequired(loaded)
       THEN /\ tasks' = [tasks EXCEPT ![t] = [IdleTask EXCEPT !.kind = kind,
                                                !.pc = "nodes_wait", !.seen = written,
                                                !.counted = TRUE]]
            /\ calls' = CallsOf({"load_graph_from_db"}, "endpoint", loaded)
            /\ response' = <<>>
            /\ rebuilds' = rebuilds + 1
       ELSE /\ Serve(t, kind, Cache, loaded, written, {})
            /\ UNCHANGED rebuilds
    /\ UNCHANGED <<chatVars, storeVars, cacheVars, searchVars, written>>

StartRoute == \E t \in TaskIds : StartRead(t, "route")
StartSearch == \E t \in TaskIds : StartRead(t, "search")
StartNodes == \E t \in TaskIds : StartRead(t, "nodes")
StartRecognize == \E t \in TaskIds : StartRead(t, "recognize")

\* POST /recognition/recognize with a file that is no image: 400 (lines 36-41)
RecognizeBadFile ==
    \E t \in TaskIds :
        /\ tasks[t].pc = "idle"
        /\ calls' = {}
        /\ response' = << [kind |-> "recognize", status |-> 400, detail |-> "not_an_image"] >>
        /\ UNCHANGED <<chatVars, storeVars, cacheVars, searchVars, tasks, rebuilds, written>>

\* clear_cache() called by task t, which goes on as `next`
ClearBy(t, next) ==
    /\ graph' = Cleared(Cache).graph
    /\ nodes_info' = Cleared(Cache).nodes_info
    /\ edges_info' = Cleared(Cache).edges_info
    /\ loaded' = FALSE
    /\ tasks' = [u \in TaskIds |-> IF u = t THEN next ELSE [tasks[u] EXCEPT !.counted = FALSE]]

\* POST /navigation/reload: clear_cache(), then load_graph_from_db up to its
\* node read
StartReload ==
    \E t \in TaskIds :
        /\ tasks[t].pc = "idle"
        /\ ClearBy(t, [IdleTask EXCEPT !.kind = "reload", !.pc = "nodes_wait",
                                       !.counted = TRUE])
        /\ calls' = CallsOf({"clear_cache"}, "endpoint", loaded)
                     \cup CallsOf({"load_graph_from_db"}, "endpoint", FALSE)
        /\ response' = <<>>
        /\ rebuilds' = 1
        /\ UNCHANGED <<chatVars, storeVars, searchVars, written>>

\* The database executes select(Node) for a load run: the rows the run will
\* see are the rows of this moment
DbReadNodes ==
    \E t \in TaskIds :
        /\ tasks[t].pc = "nodes_wait"
        /\ tasks' = [tasks EXCEPT ![t].pc = "nodes_ready", ![t].snap = store_nodes]
        /\ calls' = {}
        /\ response' = <<>>
        /\ UNCHANGED <<chatVars, storeVars, cacheVars, searchVars, rebuilds, written>>

\* load_graph_from_db resumes with the node rows, runs its node loop and
\* awaits the edge read (lines 40-57)
LoadNodesResume ==
    \E t \in TaskIds :
        /\ tasks[t].pc = "nodes_ready"
        /\ LET c == LoadNodes(Cache, tasks[t].snap, 1)
           IN  /\ graph' = c.graph
               /\ nodes_info' = c.nodes_info
               /\ edges_info' = c.edges_info
        /\ loaded' = FlagAfterNodeLoop(loaded)
        /\ tasks' = [tasks EXCEPT ![t].pc = "edges_wait", ![t].snap = <<>>]
        /\ calls' = {}
        /\ response' = <<>>
        /\ UNCHANGED <<chatVars, storeVars, searchVars, rebuilds, written>>

\* load_graph_from_db resumes with the edge rows (no endpoint writes edges, so
\* they are the rows of the store), runs its edge loop, sets _loaded and
\* returns; the handler that awaited it goes on (lines 58-83)
LoadEdgesResume ==
    \E t \in TaskIds :
        /\ tasks[t].pc = "edges_wait"
        /\ LET c == LoadEdges(Cache, store_edges, 1)
           IN  /\ graph' = c.graph
               /\ nodes_info' = c.nodes_info
               /\ edges_info' = c.edges_info
               /\ loaded' = FlagAfterEdgeLoop(loaded)
               /\ Serve(t, tasks[t].kind, c, FlagAfterEdgeLoop(loaded), tasks[t].seen,
                        CallsOf({"load_graph_from_db:return"}, "endpoint",
                                FlagAfterEdgeLoop(loaded)))
        /\ UNCHANGED <<chatVars, storeVars, searchVars, rebuilds, written>>

\* A read of the store raises: load_graph_from_db and the handler end with
\* the exception, the response is a 500
LoadFail ==
    \E t \in TaskIds :
        /\ tasks[t].pc \in {"nodes_wait", "edges_wait"}
        /\ tasks' = [tasks EXCEPT ![t] = IdleTask]
        /\ calls' = {}
        /\ response' = << [kind |-> tasks[t].kind, status |-> 500, detail |-> "store_error"] >>
        /\ rebuilds' = IF tasks[t].counted THEN rebuilds - 1 ELSE rebuilds
        /\ UNCHANGED <<chatVars, storeVars, cacheVars, searchVars, written>>

\* recognize_location resumes after await file.read()
FileReadResume ==
    \E t \in TaskIds :
        /\ tasks[t].pc = "file_wait"
        /\ \E image_ok \in BOOLEAN :
             LET o == RecognizeTail(Cache, loaded, tasks[t].node_count, image_ok)
             IN  /\ calls' = o.calls
                 /\ response' = o.response
        /\ tasks' = [tasks EXCEPT ![t] = IdleTask]
        /\ UNCHANGED <<chatVars, storeVars, cacheVars, searchVars, rebuilds, written>>

\* The node row with this id exists in the store
InStore(id) == \E i \in 1..Len(store_nodes) : store_nodes[i].id = id

\* PUT /maps/nodes/{node_id}/position (maps.py lines 165-173): the node is
\* selected; unknown, the response is 404; else x and y are set on it and the
\* handler awaits the commit. Whether the node exists never changes, so the
\* await of the select is not a step of its own.
StartUpdate ==
    \E t \in TaskIds, node_id \in WriteTargets :
        /\ tasks[t].pc = "idle"
        /\ IF InStore(node_id)
           THEN /\ tasks' = [tasks EXCEPT ![t] =
                      [IdleTask EXCEPT !.kind = "update", !.pc = "commit_wait",
                                       !.writes = << [id |-> node_id, x |-> NewPos[1],
                                                      y |-> NewPos[2]] >>]]
                /\ response' = <<>>
           ELSE /\ tasks' = tasks
                /\ response' = << [kind |-> "update", status |-> 404,
                                   detail |-> "node_not_found"] >>
        /\ calls' = {}
        /\ UNCHANGED <<chatVars, storeVars, cacheVars, searchVars, rebuilds, written>>

\* The valid entries of a batch whose node exists (maps.py lines 199-217)
BatchWrites(items) ==
    LET Valid(item) ==
            /\ TruthyId(item.id) /\ item.x # None /\ item.y # None
            /\ InStore(item.id[1])
        kept == SelectSeq(items, Valid)
    IN  [i \in 1..Len(kept) |-> [id |-> kept[i].id[1], x |-> kept[i].x, y |-> kept[i].y]]

\* PUT /maps/nodes/batch-update up to its commit (maps.py lines 196-219)
StartBatch ==
    \E t \in TaskIds, items \in BatchInputs :
        /\ tasks[t].pc = "idle"
        /\ tasks' = [tasks EXCEPT ![t] =
               [IdleTask EXCEPT !.kind = "batch", !.pc = "commit_wait",
                                !.writes = BatchWrites(items)]]
        /\ calls' = {}
        /\ response' = <<>>
        /\ UNCHANGED <<chatVars, storeVars, cacheVars, searchVars, rebuilds, written>>

RECURSIVE ApplyWrites(_, _, _)
\* The rows after the UPDATEs of a commit
ApplyWrites(rows, writes, i) ==
    IF i > Len(writes) THEN rows
    ELSE ApplyWrites([k \in 1..Len(rows) |->
                         IF rows[k].id = writes[i].id
                         THEN [rows[k] EXCEPT !.x = writes[i].x, !.y = writes[i].y]
                         ELSE rows[k]],
                     writes, i + 1)

\* The database commits the writes of task t
DbCommit ==
    \E t \in TaskIds :
        /\ tasks[t].pc = "commit_wait"
        /\ store_nodes' = ApplyWrites(store_nodes, tasks[t].writes, 1)
        /\ tasks' = [tasks EXCEPT ![t].pc = "commit_done"]
        /\ calls' = {}
        /\ response' = <<>>
        /\ UNCHANGED <<chatVars, store_edges, cacheVars, searchVars, rebuilds, written>>

\* The handler resumes after await db.commit(): clear_cache() and the
\* response (maps.py lines 176-183, 222-228)
CommitResume ==
    \E t \in TaskIds :
        /\ tasks[t].pc = "commit_done"
        /\ ClearBy(t, IdleTask)
        /\ calls' = CallsOf({"clear_cache"}, "endpoint", loaded)
        /\ response' = << [kind |-> tasks[t].kind, status |-> 200,
                           updated_count |-> Len(tasks[t].writes)] >>
        /\ rebuilds' = 0
        /\ written' = written \cup {tasks[t].writes[i].id : i \in 1..Len(tasks[t].writes)}
        /\ UNCHANGED <<chatVars, storeVars, searchVars>>

\* The application after startup (main.py lifespan loads no graph)
Init ==
    /\ store_nodes = DeployedNodes
    /\ store_edges = DeployedEdges
    /\ graph = EmptyCache.graph
    /\ nodes_info = EmptyCache.nodes_info
    /\ edges_info = EmptyCache.edges_info
    /\ loaded = FALSE
    /\ call = <<>>
    /\ search = NoLocals
    /\ tasks = [t \in TaskIds |-> IdleTask]
    /\ calls = {}
    /\ response = <<>>
    /\ rebuilds = 0
    /\ written = {}
    /\ NoChat

Next ==
    \/ StartRoute
    \/ StartSearch
    \/ StartNodes
    \/ StartRecognize
    \/ RecognizeBadFile
    \/ StartReload
    \/ DbReadNodes
    \/ LoadNodesResume
    \/ LoadEdgesResume
    \/ LoadFail
    \/ FileReadResume
    \/ StartUpdate
    \/ StartBatch
    \/ DbCommit
    \/ CommitResume

Spec == Init /\ [][Next]_vars

-----------------------------------------------------------------------------
(* The cache lifecycle under concurrent requests *)

\* The step made calls to these methods of GraphService
OpsCalled == {e.op : e \in calls}

\* The step served a read of the graph from an endpoint
EndpointRead == \E e \in calls : e.op \in ReadOps /\ e.by = "endpoint"

\* C7: since the last clear_cache() (or since startup, where the cache is in
\* the same state) the read requests have started exactly one load run that
\* did not fail: never more than one, and not zero once a request has been
\* served from the graph.
C7_ExactlyOneRebuild ==
    /\ rebuilds <= 1
    /\ EndpointRead => rebuilds >= 1

\* C8: _loaded is False at startup and after every step that called
\* clear_cache(), and that step leaves graph, nodes_info and edges_info empty;
\* _loaded turns True only in the step in which a load run that has run its
\* node loop finishes its edge loop and returns.
C8_FlagLifecycle ==
    /\ ~loaded
    /\ [][ /\ "clear_cache" \in {e.op : e \in calls'}
              => /\ ~loaded'
                 /\ graph' = <<>> /\ nodes_info' = <<>> /\ edges_info' = <<>>
           /\ (~loaded /\ loaded')
              => \E t \in TaskIds :
                    /\ tasks[t].pc = "edges_wait"
                    /\ tasks'[t].pc # "edges_wait"
                    /\ "load_graph_from_db:return" \in {e.op : e \in calls'}
                    /\ \A i \in 1..Len(store_edges) :
                          <<store_edges[i].from_node_id, store_edges[i].to_node_id>>
                              \in DOMAIN edges_info'
         ]_vars

\* A clear_cache() emptied a node index that a load run in flight had filled
C8_Witness ==
    /\ "clear_cache" \in OpsCalled
    /\ ~loaded
    /\ nodes_info = <<>>
    /\ \E t \in TaskIds : tasks[t].pc = "edges_wait"

\* C9: a route, search or node-list request that arrived after the endpoint
\* of a coordinate write had returned reads a node index that holds the
\* written coordinates of every node written.
C9_ReadSeesWrites ==
    (/\ response # <<>>
     /\ response[1].kind \in {"route", "search", "nodes"}
     /\ response[1].status # 500)
    => \A id \in response[1].seen :
          /\ GetNodeInfo(Cache, id) # None
          /\ GetNodeInfo(Cache, id)[1].x = NewPos[1]
          /\ GetNodeInfo(Cache, id)[1].y = NewPos[2]

\* C10: every call of a method that reads the graph is made while _loaded is
\* True.
C10_ReadsWhileFresh ==
    \A e \in calls : e.op \in ReadOps => e.fresh

-----------------------------------------------------------------------------
(* Requests that arrive while the graph is loaded *)

\* A step in which a route, search, node-list or recognition request arrives
\* and runs its ensure-fresh block: a handler that was not running calls the
\* graph service, and the step is neither a reload nor the return of a load
ReadArrival ==
    /\ \E t \in TaskIds : tasks[t].pc = "idle"
    /\ \E e \in calls' : e.by = "endpoint" /\ e.op \in ReadOps \cup {"load_graph_from_db"}
    /\ "clear_cache" \notin {e.op : e \in calls'}
    /\ "load_graph_from_db:return" \notin {e.op : e \in calls'}

\* C11: a route, search, node-list or recognition request that arrives while
\* _loaded is True starts no load_graph_from_db (no task comes to await a read
\* of the store) and leaves graph, nodes_info, edges_info and _loaded as they
\* were.
C11_EnsureFreshNoOp ==
    [][ (loaded /\ ReadArrival)
        => /\ "load_graph_from_db" \notin {e.op : e \in calls'}
           /\ \A t \in TaskIds : tasks'[t].pc \notin {"nodes_wait", "nodes_ready", "edges_wait"}
                                 \/ tasks'[t] = tasks[t]
           /\ graph' = graph /\ nodes_info' = nodes_info /\ edges_info' = edges_info
           /\ loaded' = loaded
           /\ rebuilds' = rebuilds
      ]_vars

\* A route request was answered from the loaded graph in the step it arrived
C11_Witness ==
    /\ loaded
    /\ graph # <<>>
    /\ response # <<>> /\ response[1].kind = "route" /\ response[1].status = 200
    /\ "load_graph_from_db:return" \notin OpsCalled
    /\ "astar" \in OpsCalled

-----------------------------------------------------------------------------
(* Reads of the store that fail *)

\* The adjacency mapping has a key for every node row and, in both
\* directions, an entry for every edge row of the store
GraphHoldsStore ==
    /\ \A i \in 1..Len(store_nodes) : store_nodes[i].id \in DOMAIN graph
    /\ \A i \in 1..Len(store_edges) :
          LET e == store_edges[i]
              Has(a, b) == /\ a \in DOMAIN graph
                           /\ \E k \in 1..Len(graph[a]) :
                                 graph[a][k] = <<b, e.weight, e.edge_type>>
          IN  Has(e.from_node_id, e.to_node_id) /\ Has(e.to_node_id, e.from_node_id)

\* A step in which a load run ends without returning: its read of the store
\* raised
LoadRaised ==
    /\ \E t \in TaskIds : tasks[t].pc \in {"nodes_wait", "edges_wait"} /\ tasks'[t].pc = "idle"
    /\ "load_graph_from_db:return" \notin {e.op : e \in calls'}

-----------------------------------------------------------------------------
(* The outcomes of a route request *)

\* The last step answered a route request that got past its ensure-fresh block
RouteAnswered == response # <<>> /\ response[1].kind = "route" /\ response[1].status # 500

\* needle occurs in hay when letters are compared without regard to case
HasSub(hay, needle) ==
    \E k \in 0..(Len(hay) - Len(needle)) :
        \A j \in 1..Len(needle) : LowerChar(hay[k + j]) = LowerChar(needle[j])

\* The id, the name or the detail of the node contains the name
NodeMatches(info, name) ==
    \/ HasSub(<<info.id>>, name)
    \/ HasSub(info.name, name)
    \/ (info.detail # None /\ HasSub(info.detail[1], name))

\* The positions in the node index, in its order, of the nodes that match
MatchingPositions(name) == {i \in 1..Len(nodes_info) : NodeMatches(nodes_info[i], name)}

\* The target a request asks for: the id it gives, else the first node in the
\* order of the node index that matches the name it gives, else none
AskedTarget(req) ==
    IF req.target_node_id # None THEN req.target_node_id
    ELSE IF req.target_name # None /\ MatchingPositions(req.target_name[1]) # {}
    THEN LET first == CHOOSE i \in MatchingPositions(req.target_name[1]) :
                         \A j \in MatchingPositions(req.target_name[1]) : i <= j
         IN  Some(nodes_info[first].id)
    ELSE None

Known(id) == \E i \in 1..Len(nodes_info) : nodes_info[i].id = id

NotFoundDetails == {"start_not_found", "target_not_found", "target_name_not_found"}

\* C13: a route request whose start and target are both in the node index but
\* lie in different components of the graph is answered with the no-route
\* outcome after astar has run; a request with an unknown start, an unknown
\* target id or a name that matches no node is answered with one of the
\* not-found outcomes; and the two kinds of outcome are never the same
\* response (both are HTTP 404, they differ in the detail).
C13_NoRouteDistinct ==
    RouteAnswered =>
        LET rsp == response[1]
            start == rsp.request.start_node_id
            tgt == AskedTarget(rsp.request)
            both == Known(start) /\ tgt # None /\ Known(tgt[1])
            missing == \/ ~Known(start)
                       \/ (tgt # None /\ ~Known(tgt[1]))
                       \/ (tgt = None /\ rsp.request.target_name # None)
        IN  /\ (both /\ ~SameComponent(Cache, start, tgt[1]))
               => /\ <<rsp.status, rsp.detail>> = <<404, "no_route">>
                  /\ "astar" \in OpsCalled
            /\ missing => (rsp.status = 404 /\ rsp.detail \in NotFoundDetails)
            /\ rsp.detail = "no_route" => (both /\ ~missing)
            /\ "no_route" \notin NotFoundDetails

\* The route from A to C, which stands alone upstairs, was asked for
C13_Witness ==
    /\ RouteAnswered
    /\ response[1].request.start_node_id = "A"
    /\ response[1].request.target_node_id = Some("C")
    /\ Known("A") /\ Known("C")
    /\ response[1].detail = "no_route"

\* C14 as stated: a route request that gives neither target_node_id nor
\* target_name is answered 400, and astar is not run.
C14_NoTargetIsBadRequest ==
    (/\ RouteAnswered
     /\ response[1].request.target_node_id = None
     /\ response[1].request.target_name = None)
    => (response[1].status = 400 /\ "astar" \notin OpsCalled)

\* C14 amended: a route request that gives neither target_node_id nor
\* target_name never runs astar; it is answered 400 when its start id is in
\* the node index, and 404 (start not found) when it is not, because the start
\* is validated first.
C14_NoTargetAfterStart ==
    (/\ RouteAnswered
     /\ response[1].request.target_node_id = None
     /\ response[1].request.target_name = None)
    => /\ "astar" \notin OpsCalled
       /\ Known(response[1].request.start_node_id)
          => <<response[1].status, response[1].detail>> = <<400, "no_target">>
       /\ ~Known(response[1].request.start_node_id)
          => <<response[1].status, response[1].detail>> = <<404, "start_not_found">>

\* A request from the known node A without any target was answered 400
C14_Witness ==
    /\ RouteAnswered
    /\ response[1].request = [start_node_id |-> "A", target_node_id |-> None,
                              target_name |-> None]
    /\ Known("A")
    /\ response[1].status = 400

\* C15: for a route request that gives only target_name, the handler's target
\* is the first node, in the order of the node index, whose id, name or detail
\* contains the name without regard to case, and a found path ends there; if
\* no node matches, the answer is 404 and astar is not run. (A request whose
\* start id is unknown is answered 404 before any target is looked for.)
C15_FirstMatchTarget ==
    (/\ RouteAnswered
     /\ response[1].request.target_node_id = None
     /\ response[1].request.target_name # None)
    => LET rsp == response[1]
           tgt == AskedTarget(rsp.request)
       IN  /\ tgt = None => (rsp.status = 404 /\ "astar" \notin OpsCalled)
           /\ (tgt # None /\ Known(rsp.request.start_node_id))
              => /\ rsp.target = tgt
                 /\ "astar" \in OpsCalled
                 /\ rsp.status = 200 => rsp.path[Len(rsp.path)] = tgt[1]
           /\ ~Known(rsp.request.start_node_id)
              => (rsp.status = 404 /\ "astar" \notin OpsCalled)

\* A name that two nodes match, in another case than theirs, led to the first
C15_Witness ==
    /\ RouteAnswered
    /\ response[1].request.target_node_id = None
    /\ response[1].request.target_name = Some(<<"L">>)
    /\ Cardinality(MatchingPositions(<<"L">>)) >= 2
    /\ response[1].target = Some("A")
    /\ response[1].status = 200

-----------------------------------------------------------------------------
(* The presenter and the node search on their own: SpecPresenter *)

MaxPath == 3          \* ids in a path handed to the presenter
MaxKeyword == 2       \* letters in a keyword

\* The edge rows a presenter store chooses among: a corridor, a staircase
\* stored the other way round between the same two nodes, a lift and a
\* staircase
PresenterEdges ==
    << EdgeRow("A", "B", 1, "normal"), EdgeRow("B", "A", MaxWeight, "stairs"),
       EdgeRow("B", "C", 1, "lifts"), EdgeRow("C", "A", 1, "stairs") >>

\* The ids a path may hold: the ids of the store, and one it does not hold
PathIds == NodeIds \cup {UnknownId}
Paths == UNION {[1..n -> PathIds] : n \in 0..MaxPath}

KeywordLetters == {"l", "L", "t", "T", "s", "q"}
PresenterKeywords == UNION {[1..n -> KeywordLetters] : n \in 0..MaxKeyword}

\* A GraphService that has loaded a drawn store, with no request in flight
InitPresenter ==
    /\ \E floor \in [NodeIds -> Floors] :
          store_nodes = << NodeRow("A", floor["A"], NoPos), NodeRow("B", floor["B"], NoPos),
                           NodeRow("C", floor["C"], NoPos) >>
    /\ \E S \in SUBSET (1..Len(PresenterEdges)) : store_edges = PickRows(PresenterEdges, S, 1)
    /\ graph = LoadAll(EmptyCache, store_nodes, store_edges).graph
    /\ nodes_info = LoadAll(EmptyCache, store_nodes, store_edges).nodes_info
    /\ edges_info = LoadAll(EmptyCache, store_nodes, store_edges).edges_info
    /\ loaded = TRUE
    /\ call = <<>>
    /\ search = NoLocals
    /\ tasks = <<>>
    /\ calls = {}
    /\ response = <<>>
    /\ rebuilds = 0
    /\ written = {}
    /\ NoChat

\* A call of one of the four methods: call holds the method and its argument,
\* response what it returned. The methods assign nothing, so a second call
\* would start from the same graph: one call per drawn graph is followed.
PathNodesCall ==
    \E path \in Paths :
        /\ call = <<>>
        /\ call' = <<"get_path_nodes", path>>
        /\ response' = <<GetPathNodes(Cache, path)>>
        /\ UNCHANGED <<chatVars, storeVars, cacheVars, search, tasks, calls, rebuilds, written>>

NavigationStepsCall ==
    \E path \in Paths :
        /\ call = <<>>
        /\ call' = <<"generate_navigation_steps", path>>
        /\ response' = <<GenerateNavigationSteps(Cache, path)>>
        /\ UNCHANGED <<chatVars, storeVars, cacheVars, search, tasks, calls, rebuilds, written>>

FloorsInPathCall ==
    \E path \in Paths :
        /\ call = <<>>
        /\ call' = <<"get_floors_in_path", path>>
        /\ response' = <<GetFloorsInPath(Cache, path)>>
        /\ UNCHANGED <<chatVars, storeVars, cacheVars, search, tasks, calls, rebuilds, written>>

SearchNodesCall ==
    \E keyword \in PresenterKeywords :
        /\ call = <<>>
        /\ call' = <<"search_nodes", keyword>>
        /\ response' = <<SearchNodes(Cache, keyword)>>
        /\ UNCHANGED <<chatVars, storeVars, cacheVars, search, tasks, calls, rebuilds, written>>

NextPresenter ==
    \/ PathNodesCall
    \/ NavigationStepsCall
    \/ FloorsInPathCall
    \/ SearchNodesCall

SpecPresenter == InitPresenter /\ [][NextPresenter]_vars

\* The last call was of this method
Called(method) == call # <<>> /\ call[1] = method

\* C16: generate_navigation_steps returns no step for a path of fewer than two
\* ids, and for a path of N >= 2 ids exactly N - 1 steps, the i-th numbered i
\* and leading from the i-th id of the path to the next.
C16_StepsFollowPath ==
    Called("generate_navigation_steps") =>
        LET path == call[2]
            steps == response[1]
        IN  /\ Len(path) < 2 => steps = <<>>
            /\ Len(path) >= 2
               => /\ Len(steps) = Len(path) - 1
                  /\ \A i \in 1..Len(steps) :
                        /\ steps[i].step_number = i
                        /\ steps[i].from_node_id = path[i]
                        /\ steps[i].to_node_id = path[i + 1]

\* Two steps were rendered for a path of three different nodes
C16_Witness ==
    /\ Called("generate_navigation_steps")
    /\ call[2] = <<"C", "A", "B">>
    /\ Len(response[1]) = 2
    /\ response[1][2].step_number = 2

\* The floor of a node row of the store
FloorInStore(id) == (CHOOSE i \in 1..Len(store_nodes) : store_nodes[i].id = id)

\* C17: get_floors_in_path returns, in strictly ascending order, exactly the
\* floors of the nodes of the path (ids without a node record add nothing);
\* a path of loaded nodes that all lie on one floor returns that one floor.
C17_FloorsSortedDistinct ==
    Called("get_floors_in_path") =>
        LET path == call[2]
            floors == response[1]
            known == {i \in 1..Len(path) : path[i] \in NodeIds}
            on == {store_nodes[FloorInStore(path[i])].floor : i \in known}
        IN  /\ \A i \in 1..Len(floors), j \in 1..Len(floors) : i < j => floors[i] < floors[j]
            /\ {floors[i] : i \in 1..Len(floors)} = on
            /\ (known = 1..Len(path) /\ Cardinality(on) = 1) => Len(floors) = 1

\* A path that starts upstairs, comes down and visits the lower floor twice
C17_Witness ==
    /\ Called("get_floors_in_path")
    /\ Len(call[2]) = 3
    /\ \A i \in 1..3 : call[2][i] \in NodeIds
    /\ store_nodes[FloorInStore(call[2][1])].floor = 2
    /\ store_nodes[FloorInStore(call[2][2])].floor = 1
    /\ store_nodes[FloorInStore(call[2][3])].floor = 1
    /\ response[1] = <<1, 2>>

\* The letters that are the two cases of one letter
CasePairs == {<<"l", "L">>, <<"t", "T">>, <<"s", "S">>, <<"q", "Q">>}
SameLetter(x, y) == x = y \/ <<x, y>> \in CasePairs \/ <<y, x>> \in CasePairs

\* The keywords that differ from k in the case of letters only
CaseVariants(k) ==
    {v \in [1..Len(k) -> KeywordLetters \cup {"S", "Q"}] :
        \A i \in 1..Len(k) : SameLetter(v[i], k[i])}

\* C18: search_nodes returns the same nodes in the same order for a keyword
\* and for every keyword that differs from it only in the case of letters.
C18_SearchIgnoresCase ==
    Called("search_nodes") =>
        \A v \in CaseVariants(call[2]) : SearchNodes(Cache, v) = response[1]

\* A keyword in capitals found nodes whose letters are in lower case
C18_Witness ==
    /\ Called("search_nodes")
    /\ call[2] = <<"L", "T">>
    /\ Len(response[1]) = 1
    /\ response[1][1].id = "A"
    /\ <<"l", "t">> \in CaseVariants(call[2])

-----------------------------------------------------------------------------
(* The shape of the graph in every state a request can find it in *)

\* How many times x occurs in the list
Count(list, x) == Cardinality({i \in 1..Len(list) : list[i] = x})

\* C19: in every state between two steps of the event loop, edges_info has
\* (a, b) exactly when it has (b, a), with the same weight and type, and
\* graph[a] holds (b, w, t) as many times as graph[b] holds (a, w, t).
C19_EdgesSymmetric ==
    /\ \A k \in DOMAIN edges_info :
          /\ <<k[2], k[1]>> \in DOMAIN edges_info
          /\ edges_info[<<k[2], k[1]>>].weight = edges_info[k].weight
          /\ edges_info[<<k[2], k[1]>>].edge_type = edges_info[k].edge_type
    /\ \A a \in DOMAIN graph :
          \A i \in 1..Len(graph[a]) :
             LET b == graph[a][i][1]
                 w == graph[a][i][2]
                 t == graph[a][i][3]
             IN  /\ b \in DOMAIN graph
                 /\ Count(graph[a], <<b, w, t>>) = Count(graph[b], <<a, w, t>>)

\* Two load runs have both run their edge loops: every row is there twice,
\* and the second row between A and B has overwritten the first in edges_info
C19_Witness ==
    /\ loaded
    /\ "A" \in DOMAIN graph
    /\ Count(graph["A"], <<"B", 1, "normal">>) = 2
    /\ Count(graph["A"], <<"B", MaxWeight, "normal">>) = 2
    /\ edges_info[<<"A", "B">>].weight = MaxWeight

\* C20: in every state, every id that is a neighbour in an adjacency list or
\* part of a key of edges_info is a key of graph, also when no node row has
\* that id.
C20_EndpointsAreKeys ==
    /\ \A a \in DOMAIN graph : \A i \in 1..Len(graph[a]) : graph[a][i][1] \in DOMAIN graph
    /\ \A k \in DOMAIN edges_info : k[1] \in DOMAIN graph /\ k[2] \in DOMAIN graph

\* The graph was cleared between the node loop and the edge loop of a run:
\* its keys come from the edge rows alone, one of them from no node row
C20_Witness ==
    /\ loaded
    /\ nodes_info = <<>>
    /\ DOMAIN graph = {"A", "B", DanglingId}
    /\ graph[DanglingId] = << <<"B", 1, "normal">> >>

-----------------------------------------------------------------------------
(* _heuristic on its own: SpecHeuristic *)

\* The values a coordinate column may hold: NULL, zero, and one that is not
\* zero (3 across, 4 down: every distance between two positions is whole)
XValues == {None, Some(0), Some(3)}
YValues == {None, Some(0), Some(4)}

\* A GraphService that has loaded two node rows with drawn floors and
\* coordinates
InitHeuristic ==
    /\ \E floor \in [{"A", "B"} -> Floors], x \in [{"A", "B"} -> XValues],
          y \in [{"A", "B"} -> YValues] :
          store_nodes = << NodeRow("A", floor["A"], <<x["A"], y["A"]>>),
                           NodeRow("B", floor["B"], <<x["B"], y["B"]>>) >>
    /\ store_edges = <<>>
    /\ graph = LoadAll(EmptyCache, store_nodes, store_edges).graph
    /\ nodes_info = LoadAll(EmptyCache, store_nodes, store_edges).nodes_info
    /\ edges_info = LoadAll(EmptyCache, store_nodes, store_edges).edges_info
    /\ loaded = TRUE
    /\ call = <<>>
    /\ search = NoLocals
    /\ tasks = <<>>
    /\ calls = {}
    /\ response = <<>>
    /\ rebuilds = 0
    /\ written = {}
    /\ NoChat

\* A call of _heuristic; it assigns nothing, so one call per graph is followed
HeuristicCall ==
    \E node1_id \in {"A", "B", UnknownId}, node2_id \in {"A", "B", UnknownId} :
        /\ call = <<>>
        /\ call' = <<"_heuristic", node1_id, node2_id>>
        /\ response' = <<Heuristic(Cache, node1_id, node2_id)>>
        /\ UNCHANGED <<chatVars, storeVars, cacheVars, search, tasks, calls, rebuilds, written>>

NextHeuristic == HeuristicCall

SpecHeuristic == InitHeuristic /\ [][NextHeuristic]_vars

\* The node row of the store with this id
RowOf(id) == store_nodes[CHOOSE i \in 1..Len(store_nodes) : store_nodes[i].id = id]

\* C21: for two nodes of the graph, _heuristic returns the straight-line
\* distance between their coordinates plus 30 for every floor between them
\* when x and y are set (not NULL) on both, and 50 for every floor between
\* them when a coordinate of either is not set.
C21_HeuristicFormula ==
    (Called("_heuristic") /\ call[2] \in {"A", "B"} /\ call[3] \in {"A", "B"})
    => LET n1 == RowOf(call[2])
           n2 == RowOf(call[3])
           floors == IF n1.floor < n2.floor THEN n2.floor - n1.floor
                     ELSE n1.floor - n2.floor
       IN  IF n1.x # None /\ n1.y # None /\ n2.x # None /\ n2.y # None
           THEN \E d \in 0..5 :
                   /\ d * d = (n1.x[1] - n2.x[1]) * (n1.x[1] - n2.x[1])
                              + (n1.y[1] - n2.y[1]) * (n1.y[1] - n2.y[1])
                   /\ response[1] = d + 30 * floors
           ELSE response[1] = 50 * floors

-----------------------------------------------------------------------------
(* The sentences of the steps *)

\* The edge rows of the store that join a and b, in either direction
RowsBetween(a, b) ==
    {store_edges[k] : k \in {j \in 1..Len(store_edges) :
        {store_edges[j].from_node_id, store_edges[j].to_node_id} = {a, b}}}

\* C24: in a step between two consecutive nodes of the path, floor_change is
\* absent when the floors of the two nodes are equal and else is the floor of
\* the second minus the floor of the first; the step carries type and weight
\* of an edge row recorded between the two, and its sentence follows the type:
\* stairs go up or down by the number of floors, or are passed through when
\* the floor stays; a lift is taken when the floor changes and else passed
\* through; a normal edge is walked, the sentence carrying the weight.
C24_StepSentences ==
    Called("generate_navigation_steps") =>
        \A i \in 1..Len(response[1]) :
            LET step == response[1][i]
                from_id == call[2][i]
                to_id == call[2][i + 1]
            IN  (from_id \in NodeIds /\ to_id \in NodeIds /\ RowsBetween(from_id, to_id) # {}) =>
                  LET from_floor == RowOf(from_id).floor
                      to_floor == RowOf(to_id).floor
                      change == to_floor - from_floor
                      kind == step.instruction.kind
                  IN  /\ step.floor_change = IF change = 0 THEN None ELSE Some(change)
                      /\ \E row \in RowsBetween(from_id, to_id) :
                            /\ step.edge_type = row.edge_type
                            /\ step.distance = row.weight
                      /\ step.edge_type = "stairs" =>
                            /\ change > 0 => kind = "go_up_stairs"
                                                /\ step.instruction.count = Str(change)
                            /\ change < 0 => kind = "go_down_stairs"
                                                /\ step.instruction.count = Str(0 - change)
                            /\ change = 0 => kind = "pass_stairs"
                      /\ step.edge_type = "lifts" =>
                            kind = IF change # 0 THEN "take_lift" ELSE "pass_lift"
                      /\ step.edge_type = "normal" =>
                            /\ kind = "walk"
                            /\ step.instruction.weight = Str(step.distance)

\* The steps of a path were made that goes down a staircase and then walks
\* along an edge between two floors
C24_Witness ==
    /\ Called("generate_navigation_steps")
    /\ Len(response[1]) = 2
    /\ response[1][1].instruction.kind = "go_down_stairs"
    /\ response[1][2].instruction.kind = "walk"
    /\ response[1][2].floor_change # None

-----------------------------------------------------------------------------
(* The recognizer's lookup of a label: SpecRecognizer *)

MaxLabel == 2      \* characters of a label

\* int() of a run of decimal digits
DigitValue(ch) == CHOOSE d \in 0..9 : DigitChars[d + 1] = ch
RECURSIVE ParseInt(_)
ParseInt(digits) ==
    IF digits = <<>> THEN 0
    ELSE 10 * ParseInt(SubSeq(digits, 1, Len(digits) - 1)) + DigitValue(digits[Len(digits)])

IsDigit(ch) == \E d \in 1..10 : DigitChars[d] = ch

\* _extract_floor_from_label (lines 208-217): re.search(r'L(\d+)', label,
\* re.IGNORECASE) finds the leftmost l or L that a digit follows and takes all
\* the digits after it
ExtractFloorFromLabel(label) ==
    LET starts == {i \in 1..(Len(label) - 1) :
                      LowerChar(label[i]) = "l" /\ IsDigit(label[i + 1])}
    IN  IF starts = {} THEN None
        ELSE LET i == CHOOSE k \in starts : \A m \in starts : k <= m
                 last == CHOOSE e \in (i + 1)..Len(label) :
                            /\ \A k \in (i + 1)..e : IsDigit(label[k])
                            /\ e = Len(label) \/ ~IsDigit(label[e + 1])
             IN  Some(ParseInt(SubSeq(label, i + 1, last)))

\* The least and the greatest index of a non-empty set of indexes
FirstOf(S) == CHOOSE i \in S : \A j \in S : i <= j
LastOf(S) == CHOOSE i \in S : \A j \in S : j <= i

\* n["id"] in label or ... : line 173
FuzzyMatch(label, n) ==
    \/ Contains(IdText(n.id), label)
    \/ Contains(n.name, label)
    \/ Contains(label, IdText(n.id))
    \/ Contains(label, n.name)

\* Lines 152-188 for one match: the node its label is mapped to, if any.
\* nodes_by_name is built by a dict comprehension, so of two nodes of one name
\* it holds the later one.
MapLabel(c, label) ==
    LET all_nodes == GetAllNodes(c)
        idx == 1..Len(all_nodes)
        by_id == {i \in idx : IdText(all_nodes[i].id) = label}
        by_name == {i \in idx : all_nodes[i].name = label}
        fuzzy == {i \in idx : FuzzyMatch(label, all_nodes[i])}
        node == IF by_id # {} THEN Some(all_nodes[LastOf(by_id)])
                ELSE IF by_name # {} THEN Some(all_nodes[LastOf(by_name)])
                ELSE IF fuzzy # {} THEN Some(all_nodes[FirstOf(fuzzy)])
                ELSE None
        floor == ExtractFloorFromLabel(label)
        floor_nodes == {i \in idx : floor # None /\ all_nodes[i].floor = floor[1]}
    IN  IF node = None /\ label # <<>> /\ Truthy(floor) /\ floor_nodes # {}
        THEN Some(all_nodes[FirstOf(floor_nodes)])
        ELSE node

\* _map_matches_to_candidates (lines 132-206) for a list of one match: no
\* candidate without nodes (lines 146-148), else the candidate of the node
\* the label is mapped to
MapMatchesToCandidates(c, label) ==
    IF GetAllNodes(c) = <<>> \/ MapLabel(c, label) = None THEN <<>>
    ELSE LET node == MapLabel(c, label)[1]
         IN  << [node_id |-> node.id, node_name |-> node.name, floor |-> node.floor] >>

LabelChars == {"A", "B", "L", "l", "T", "S", "0", "2", "q"}
Labels == UNION {[1..n -> LabelChars] : n \in 0..MaxLabel}

\* A GraphService that has loaded a store of three nodes without edges; the
\* order of the node rows and their floors (the ground floor is floor 0) are
\* drawn
InitRecognizer ==
    /\ \E floor \in [NodeIds -> 0..MaxFloor], p \in Permutations3 :
          store_nodes = [i \in 1..3 |->
                            LET id == <<"A", "B", "C">>[p[i]] IN NodeRow(id, floor[id], NoPos)]
    /\ store_edges = <<>>
    /\ graph = LoadAll(EmptyCache, store_nodes, store_edges).graph
    /\ nodes_info = LoadAll(EmptyCache, store_nodes, store_edges).nodes_info
    /\ edges_info = LoadAll(EmptyCache, store_nodes, store_edges).edges_info
    /\ loaded = TRUE
    /\ call = <<>>
    /\ search = NoLocals
    /\ tasks = <<>>
    /\ calls = {}
    /\ response = <<>>
    /\ rebuilds = 0
    /\ written = {}
    /\ NoChat

\* A call of _map_matches_to_candidates with one match; it assigns nothing,
\* so one call per graph is followed
MapMatchesCall ==
    \E label \in Labels :
        /\ call = <<>>
        /\ call' = <<"_map_matches_to_candidates", label>>
        /\ response' = <<MapMatchesToCandidates(Cache, label)>>
        /\ UNCHANGED <<chatVars, storeVars, cacheVars, search, tasks, calls, rebuilds, written>>

NextRecognizer == MapMatchesCall

SpecRecognizer == InitRecognizer /\ [][NextRecognizer]_vars

\* The indexes of the node index that the label selects at each rank
IdEquals(label) == {i \in 1..Len(nodes_info) : <<nodes_info[i].id>> = label}
NameEquals(label) == {i \in 1..Len(nodes_info) : nodes_info[i].name = label}
SubstringEitherWay(label) ==
    {i \in 1..Len(nodes_info) :
        \/ Contains(<<nodes_info[i].id>>, label) \/ Contains(nodes_info[i].name, label)
        \/ Contains(label, <<nodes_info[i].id>>) \/ Contains(label, nodes_info[i].name)}
OnParsedFloor(label) ==
    {i \in 1..Len(nodes_info) :
        /\ ExtractFloorFromLabel(label) # None
        /\ nodes_info[i].floor = ExtractFloorFromLabel(label)[1]}

\* C25: a label is mapped to the node whose id equals it; else to the node
\* whose name equals it; else to the first node of the node index whose id or
\* name contains the label or is contained in it; else to the first node on
\* the floor whose number is parsed from the label; else to no node.
C25_LabelPrecedence ==
    Called("_map_matches_to_candidates") =>
        LET label == call[2]
            ranks == <<IdEquals(label), NameEquals(label), SubstringEitherWay(label),
                       OnParsedFloor(label)>>
            hit == {r \in 1..4 : ranks[r] # {}}
        IN  IF hit = {} THEN response[1] = <<>>
            ELSE /\ Len(response[1]) = 1
                 /\ response[1][1].node_id = nodes_info[FirstOf(ranks[FirstOf(hit)])].id

-----------------------------------------------------------------------------
(* The cache while _loaded is True *)

\* C26: whenever _loaded is True, nodes_info holds every node row of the
\* store, so that a route request whose start id has a node row is never
\* answered "start not found".
C26_FreshIndexComplete ==
    /\ loaded => \A i \in 1..Len(store_nodes) : Known(store_nodes[i].id)
    /\ (RouteAnswered /\ InStore(response[1].request.start_node_id))
          => response[1].detail # "start_not_found"

\* The entries of graph[n] that edge row number k of the store accounts for:
\* one at each end of the row, two at the node of a self-loop
EntriesOfRow(n, k) ==
    (IF store_edges[k].from_node_id = n THEN 1 ELSE 0)
    + (IF store_edges[k].to_node_id = n THEN 1 ELSE 0)

RECURSIVE EntriesOfRows(_, _)
EntriesOfRows(n, k) ==
    IF k = 0 THEN 0 ELSE EntriesOfRows(n, k - 1) + EntriesOfRow(n, k)

\* C27: whenever _loaded is True, graph[n] holds as many entries as there are
\* ends of edge rows at n (a self-loop has two), and to each neighbour with
\* each weight and type as many as there are edge rows saying so: no edge row
\* is in the adjacency lists twice.
C27_NoDuplicateEntries ==
    loaded =>
        \A n \in DOMAIN graph :
            /\ Len(graph[n]) = EntriesOfRows(n, Len(store_edges))
            /\ \A i \in 1..Len(graph[n]) :
                  Count(graph[n], graph[n][i])
                    = Cardinality({k \in 1..Len(store_edges) :
                        \E ends \in {<<store_edges[k].from_node_id, store_edges[k].to_node_id>>,
                                      <<store_edges[k].to_node_id, store_edges[k].from_node_id>>} :
                            /\ ends[1] = n
                            /\ graph[n][i] = <<ends[2], store_edges[k].weight,
                                                store_edges[k].edge_type>>})

-----------------------------------------------------------------------------
(* The distances of a route response *)

RECURSIVE SumDistances(_, _)
\* The sum of the distance fields of the first k steps
SumDistances(steps, k) ==
    IF k = 0 THEN 0 ELSE SumDistances(steps, k - 1) + steps[k].distance

\* C28: in every successful route response the distance fields of the steps
\* add up to total_distance.
C28_StepsSumToTotal ==
    (RouteAnswered /\ response[1].status = 200)
        => /\ ~response[1].total_distance.inf
           /\ SumDistances(response[1].steps, Len(response[1].steps))
                = response[1].total_distance.val

-----------------------------------------------------------------------------
(* The target of a route request that names it twice *)

\* C29: a route request that carries both target_node_id and target_name is
\* answered for target_node_id without search_nodes being called; and a
\* request whose start id is not in the node index is answered 404 (start not
\* found) whatever target fields it carries.
C29_IdBeforeName ==
    RouteAnswered =>
        LET rsp == response[1]
        IN  /\ (rsp.request.target_node_id # None /\ rsp.request.target_name # None)
                  => /\ "search_nodes" \notin OpsCalled
                     /\ Known(rsp.request.start_node_id)
                           => /\ rsp.target = rsp.request.target_node_id
                              /\ rsp.status = 200
                                    => rsp.path[Len(rsp.path)] = rsp.request.target_node_id[1]
            /\ ~Known(rsp.request.start_node_id)
                  => <<rsp.status, rsp.detail>> = <<404, "start_not_found">>

\* A route to B was returned for a request that names B by id and, by name,
\* nodes of which B is not the first
C29_Witness ==
    /\ RouteAnswered
    /\ response[1].request = [start_node_id |-> "A", target_node_id |-> Some("B"),
                              target_name |-> Some(<<"L">>)]
    /\ MatchingPositions(<<"L">>) # {}
    /\ nodes_info[FirstOf(MatchingPositions(<<"L">>))].id # "B"
    /\ response[1].status = 200
    /\ response[1].path = <<"A", "B">>

-----------------------------------------------------------------------------
(* The chat sessions: SpecChat *)

MAX_SESSION_MESSAGES == 20    \* chat.py line 28
MaxAppends == 3               \* calls with drawn arguments

RECURSIVE StripLeft(_)
StripLeft(text) ==
    IF text = <<>> \/ Head(text) # " " THEN text ELSE StripLeft(Tail(text))

RECURSIVE StripRight(_)
StripRight(text) ==
    IF text = <<>> \/ text[Len(text)] # " " THEN text
    ELSE StripRight(SubSeq(text, 1, Len(text) - 1))

\* str.strip() of a text whose only white space is the blank
Strip(text) == StripRight(StripLeft(text))

\* (content or "").strip(): line 49
Content(content) == Strip(IF content = None THEN <<>> ELSE content[1])

\* _get_history (lines 44-45)
GetHistory(messages, session_id) ==
    IF session_id \in DOMAIN messages THEN messages[session_id] ELSE <<>>

\* AppendHistory that cuts a long history down to its oldest messages
AppendHistoryKeepsOldest(messages, session_id, role, content) ==
    LET c == Content(content)
        history == Append(GetHistory(messages, session_id), [role |-> role, content |-> c])
    IN  IF c = <<>> THEN messages
        ELSE IF Len(history) > MAX_SESSION_MESSAGES
        THEN (session_id :> SubSeq(history, 1, MAX_SESSION_MESSAGES)) @@ messages
        ELSE (session_id :> history) @@ messages

\* _append_history (lines 48-55): _SESSION_MESSAGES after the call
AppendHistory(messages, session_id, role, content) ==
    LET c == Content(content)
        history == Append(GetHistory(messages, session_id), [role |-> role, content |-> c])
    IN  IF c = <<>> THEN messages
        ELSE IF Len(history) > MAX_SESSION_MESSAGES
        THEN (session_id :> SubSeq(history, Len(history) - MAX_SESSION_MESSAGES + 1,
                                   Len(history))) @@ messages
        ELSE (session_id :> history) @@ messages

SessionIds == {"s1", "s2"}
Roles == {"user", "assistant"}
Contents == {None, Some(<<" ">>), Some(<<"a">>), Some(<<" ", "b", " ">>)}

\* The module after import (line 27), beside a GraphService just constructed
InitChat ==
    /\ store_nodes = DeployedNodes
    /\ store_edges = DeployedEdges
    /\ graph = EmptyCache.graph
    /\ nodes_info = EmptyCache.nodes_info
    /\ edges_info = EmptyCache.edges_info
    /\ loaded = FALSE
    /\ call = <<>>
    /\ search = NoLocals
    /\ tasks = <<>>
    /\ calls = {}
    /\ response = <<>>
    /\ rebuilds = 0
    /\ written = {}
    /\ NoChat

\* A call of _append_history
AppendHistoryCall(session_id, role, content, drawn) ==
    /\ session_messages' = AppendHistory(session_messages, session_id, role, content)
    /\ appends' = Append(appends, [session_id |-> session_id, role |-> role,
                                    content |-> content, drawn |-> drawn])
    /\ UNCHANGED <<storeVars, cacheVars, searchVars, requestVars>>

\* The turns of a conversation in session s1 whose k-th message is the number
\* k: user and assistant take turns (lines 361-362)
AppendTurn ==
    /\ Len(appends) < MAX_SESSION_MESSAGES
    /\ \A k \in 1..Len(appends) : ~appends[k].drawn
    /\ AppendHistoryCall("s1", IF Len(appends) % 2 = 0 THEN "user" ELSE "assistant",
                         Some(Digits(Len(appends) + 1)), FALSE)

\* Calls with any arguments, at any point of that conversation
AppendDrawn ==
    /\ Cardinality({k \in 1..Len(appends) : appends[k].drawn}) < MaxAppends
    /\ \E session_id \in SessionIds, role \in Roles, content \in Contents :
          AppendHistoryCall(session_id, role, content, TRUE)

NextChat == AppendTurn \/ AppendDrawn

SpecChat == InitChat /\ [][NextChat]_vars

\* The messages appended to the session so far that are not blank, in the
\* order of the calls, as they are kept: without the white space around them
Appended(session_id) ==
    LET Kept(e) == e.session_id = session_id /\ Content(e.content) # <<>>
        kept == SelectSeq(appends, Kept)
    IN  [k \in 1..Len(kept) |-> [role |-> kept[k].role, content |-> Content(kept[k].content)]]

\* C30: after any sequence of _append_history calls the history of every
\* session holds at most 20 messages, and these are the last of the
\* non-blank messages appended to that session, in the order they were
\* appended (calls with blank content and calls for another session add
\* nothing to it).
C30_HistoryCapped ==
    \A session_id \in SessionIds :
        LET history == GetHistory(session_messages, session_id)
            all == Appended(session_id)
            from == IF Len(all) > 20 THEN Len(all) - 20 ELSE 0
        IN  /\ Len(history) <= 20
            /\ history = [k \in 1..(Len(all) - from) |-> all[from + k]]

\* Session s1 has lost its oldest message, a blank call was made for it
\* after that, and session s2 holds one message
C30_Witness ==
    /\ Len(Appended("s1")) > 20
    /\ Len(GetHistory(session_messages, "s1")) = 20
    /\ Len(GetHistory(session_messages, "s2")) = 1
    /\ appends[Len(appends)].session_id = "s1"
    /\ Content(appends[Len(appends)].content) = <<>>

====
